---- MODULE Spec2Model ----
(***************************************************************************)
(* A-LOG: the structured logger (alog/core.py), the span bridge            *)
(* (alog/otel_exporter.py) and the instrumentation wrapper with its        *)
(* reasoning extractor (alog/auto.py), as a state machine.                 *)
(*                                                                         *)
(* The program state is the ALogger object (logger), the sink files it     *)
(* appends to (fs), the spans handed to the tracing backend (spans), the   *)
(* number of uuid4() values drawn so far (uuid_count) and the wall clock   *)
(* (clock).  calls is the history of the envelopes built by record(), in   *)
(* call order, and ret is what the last operation gave back to its caller. *)
(***************************************************************************)
EXTENDS Integers, Sequences, FiniteSets, TLC

VARIABLES logger, fs, spans, uuid_count, clock, calls, target, threads,
          ret

vars ==
    <<logger, fs, spans, uuid_count, clock, calls, target, threads, ret>>

(***************************************************************************)
(* Bounds of the model.                                                    *)
(***************************************************************************)
\* record() calls in one behaviour
MaxCalls == 2
\* pieces a generated text is made of
MaxPieces == 4

(***************************************************************************)
(* Python values.  Every value is a record tagged with its type, so that   *)
(* values of different types can be compared.  A str is written out as a   *)
(* sequence of characters where its content is inspected (method results,  *)
(* thoughts, summaries) and kept as an atom (a) where it is only passed on.*)
(***************************************************************************)
None == [py |-> "NoneType"]
PyStr(s) == [py |-> "str", s |-> s]
PyName(a) == [py |-> "str", a |-> a]
PyInt(n) == [py |-> "int", n |-> n]
PyFloat(x) == [py |-> "float", x |-> x]
PyList(items) == [py |-> "list", items |-> items]
PyTuple(items) == [py |-> "tuple", items |-> items]
PyDict(d) == [py |-> "dict", d |-> d]
PySet == [py |-> "set"]
PyObject(cls) == [py |-> cls]
\* an object of class cls whose __str__ and __repr__ raise or not
PyOpaque(cls, str_fails, repr_fails) ==
    [py |-> cls, str_raises |-> str_fails, repr_raises |-> repr_fails]

\* str(uuid.uuid4()): the n-th identifier drawn; distinct draws are distinct
UuidStr(n) == [py |-> "str", uuid |-> n]
\* datetime.isoformat() of the instant t
IsoStr(t) == [py |-> "str", iso |-> t]

isinstance_str(v) == v.py = "str"

(***************************************************************************)
(* json.dumps / json.loads (core.py:273, core.py:319).  A line of a sink   *)
(* is the JSON text of one envelope, kept as its JSON value: null, string, *)
(* number, array or object.  dumps raises TypeError on a value JSON has no *)
(* form for; a tuple is written as an array and so is read back as a list. *)
(***************************************************************************)
RECURSIVE JsonSerializable(_)
JsonSerializable(v) ==
    CASE v.py \in {"NoneType", "str", "int", "float"} -> TRUE
      [] v.py \in {"list", "tuple"} ->
            \A i \in DOMAIN v.items : JsonSerializable(v.items[i])
      [] v.py = "dict" -> \A k \in DOMAIN v.d : JsonSerializable(v.d[k])
      [] OTHER -> FALSE

RECURSIVE json_dumps(_)
json_dumps(v) ==
    CASE v.py = "NoneType" -> [js |-> "null"]
      [] v.py = "str" -> [js |-> "string", of |-> v]
      [] v.py \in {"int", "float"} -> [js |-> "number", of |-> v]
      [] v.py \in {"list", "tuple"} ->
            [js |-> "array",
             items |-> [i \in DOMAIN v.items |-> json_dumps(v.items[i])]]
      [] v.py = "dict" ->
            [js |-> "object", d |-> [k \in DOMAIN v.d |-> json_dumps(v.d[k])]]

RECURSIVE json_loads(_)
json_loads(j) ==
    CASE j.js = "null" -> None
      [] j.js \in {"string", "number"} -> j.of
      [] j.js = "array" ->
            PyList([i \in DOMAIN j.items |-> json_loads(j.items[i])])
      [] j.js = "object" ->
            PyDict([k \in DOMAIN j.d |-> json_loads(j.d[k])])

(***************************************************************************)
(* The world an operation runs in and hands on: the variables as one       *)
(* record, so that a handler's calls compose in program order.             *)
(***************************************************************************)
World ==
    [logger |-> logger, fs |-> fs, spans |-> spans,
     uuid_count |-> uuid_count, clock |-> clock, calls |-> calls,
     target |-> target, threads |-> threads]

SetWorld(w) ==
    /\ logger' = w.logger
    /\ fs' = w.fs
    /\ spans' = w.spans
    /\ uuid_count' = w.uuid_count
    /\ clock' = w.clock
    /\ calls' = w.calls
    /\ target' = w.target
    /\ threads' = w.threads

\* a keyword argument, or its default when the caller omits it
Arg(kw, name, default) == IF name \in DOMAIN kw THEN kw[name] ELSE default

OPERATIONAL == PyName("operational")
COGNITIVE == PyName("cognitive")
CONTEXTUAL == PyName("contextual")

OutputDir == "logs"
OperationalPath == OutputDir \o "/operational.jsonl"
CognitivePath == OutputDir \o "/cognitive.jsonl"
ContextualPath == OutputDir \o "/contextual.jsonl"
Paths == {OperationalPath, CognitivePath, ContextualPath}
\* self.contextual_file = None
\* the file the merge utility writes when it is given no other
UnifiedPath == "unified.jsonl"
Files == Paths \cup {UnifiedPath}

NoPath == "None"

NoFile == [exists |-> FALSE, lines |-> <<>>]

(***************************************************************************)
(* ALogger.__init__: the sink paths, the contextual sink only when         *)
(* save_contextual_to_file, no trace retained, the span bridge only when   *)
(* enable_otel (its tracer is None when OpenTelemetry is not installed).   *)
(***************************************************************************)
ALogger(save_contextual_to_file, enable_otel, tracer) ==
    [save_contextual_to_file |-> save_contextual_to_file,
     operational_file |-> OperationalPath,
     cognitive_file |-> CognitivePath,
     contextual_file |->
        IF save_contextual_to_file THEN ContextualPath ELSE NoPath,
     current_trace_id |-> None,
     current_span_id |-> None,
     enable_otel |-> enable_otel,
     otel |-> IF enable_otel THEN [tracer |-> tracer] ELSE None]

(***************************************************************************)
(* OTelExporter.emit_span: nothing without a tracer; else one span named   *)
(* "{agent}.{surface}" carrying surface, agent and every payload entry     *)
(* that is not None: scalars as they are, sequences as str(value), maps as *)
(* JSON text (repr(value) when json.dumps raises), the rest as str(value). *)
(***************************************************************************)
\* repr(value) raises: an object whose __repr__ raises, or a container
\* holding one
RECURSIVE repr_raises(_)
repr_raises(value) ==
    CASE value.py \in {"list", "tuple"} ->
            \E i \in DOMAIN value.items : repr_raises(value.items[i])
      [] value.py = "dict" ->
            \E k \in DOMAIN value.d : repr_raises(value.d[k])
      [] OTHER -> "repr_raises" \in DOMAIN value /\ value.repr_raises

\* str(value) raises: an object whose __str__ raises; the str of a
\* container is made of the repr of what it holds
str_raises(value) ==
    IF value.py \in {"list", "tuple", "dict"} THEN repr_raises(value)
    ELSE "str_raises" \in DOMAIN value /\ value.str_raises

\* f"<error serializing value: {type(value).__name__}>"
error_marker(value) ==
    PyName("<error serializing value: " \o value.py \o ">")

\* the except branch of otel_exporter.py:94-99: repr(value), and the marker
\* when repr raises too
repr_or_marker(value) ==
    IF repr_raises(value) THEN error_marker(value)
    ELSE [py |-> "str", repr_of |-> value]

\* the except branch with the marker set at once, repr(value) not tried
marker_at_once(value) ==
    CASE value.py \in {"str", "int", "float", "bool"} -> value
      [] value.py = "dict" ->
            IF JsonSerializable(value)
            THEN [py |-> "str", json |-> json_dumps(value)]
            ELSE error_marker(value)
      [] OTHER ->
            IF str_raises(value) THEN error_marker(value)
            ELSE [py |-> "str", str_of |-> value]

span_attribute(value) ==
    CASE value.py \in {"str", "int", "float", "bool"} -> value
      [] value.py \in {"list", "tuple"} ->
            IF str_raises(value) THEN repr_or_marker(value)
            ELSE [py |-> "str", str_of |-> value]
      [] value.py = "dict" ->
            IF JsonSerializable(value)
            THEN [py |-> "str", json |-> json_dumps(value)]
            ELSE repr_or_marker(value)
      [] OTHER ->
            IF str_raises(value) THEN repr_or_marker(value)
            ELSE [py |-> "str", str_of |-> value]

\* emit_span with the span left current when it returns, so that the next
\* span starts as its child
emit_span_nested(w, surface, agent, event) ==
    IF ~w.logger.otel.tracer THEN w
    ELSE [w EXCEPT !.spans =
            Append(@, [name |-> agent.a \o "." \o surface.a,
                       parent |-> IF w.spans = <<>> THEN None
                                  ELSE PyName(w.spans[Len(w.spans)].name),
                       attributes |->
                          [k \in {"surface", "agent"} |->
                              IF k = "surface" THEN surface ELSE agent]])]

\* The span is started with context=None, in the current context: record
\* is called with no span of the bridge current, the with block having
\* ended every earlier one, so that the span has no parent among them.
emit_span(w, surface, agent, event) ==
    IF ~w.logger.otel.tracer THEN w
    ELSE LET keys == {k \in DOMAIN event.d : event.d[k] # None}
             attributes ==
                [k \in {"surface", "agent"} \cup keys |->
                    IF k \in keys THEN span_attribute(event.d[k])
                    ELSE IF k = "surface" THEN surface ELSE agent]
         IN  [w EXCEPT !.spans =
                Append(@, [name |-> agent.a \o "." \o surface.a,
                           parent |-> None,
                           attributes |-> attributes])]

\* _write_to_file with the sink opened in mode 'w' instead of 'a'
write_to_file_mode_w(w, filepath, log_entry, io) ==
    IF io = "open_fails" THEN w
    ELSE IF ~JsonSerializable(log_entry)
         THEN [w EXCEPT !.fs[filepath] = [exists |-> TRUE, lines |-> <<>>]]
         ELSE [w EXCEPT !.fs[filepath] =
                  [exists |-> TRUE, lines |-> <<json_dumps(log_entry)>>]]

\* _write_to_file with the line put before the lines of the sink
write_to_file_prepending(w, filepath, log_entry, io) ==
    IF io = "open_fails" THEN w
    ELSE IF ~JsonSerializable(log_entry)
         THEN [w EXCEPT !.fs[filepath].exists = TRUE]
         ELSE [w EXCEPT !.fs[filepath] =
                  [exists |-> TRUE,
                   lines |-> <<json_dumps(log_entry)>> \o @.lines]]

\* _write_to_file with the append tried again after the open failed
write_to_file_retried(w, filepath, log_entry, io) ==
    IF ~JsonSerializable(log_entry)
    THEN [w EXCEPT !.fs[filepath].exists = TRUE]
    ELSE [w EXCEPT !.fs[filepath] =
             [exists |-> TRUE,
              lines |-> Append(@.lines, json_dumps(log_entry))]]

(***************************************************************************)
(* ALogger._write_to_file: open the sink for appending (which creates it), *)
(* encode the envelope, append the line.  Any exception (the open failing, *)
(* json.dumps raising TypeError) is caught and the envelope is dropped.    *)
(***************************************************************************)
_write_to_file(w, filepath, log_entry, io) ==
    IF io = "open_fails" THEN w
    ELSE IF ~JsonSerializable(log_entry)
         THEN [w EXCEPT !.fs[filepath].exists = TRUE]
         ELSE [w EXCEPT !.fs[filepath] =
                  [exists |-> TRUE,
                   lines |-> Append(@.lines, json_dumps(log_entry))]]

\* a line json.loads decodes: one envelope whole, not the pieces of several
Decodable(line) == "torn" \notin DOMAIN line

(***************************************************************************)
(* ALogger._read_file: no file, no entries; else every line decoded, in    *)
(* order.  The try is around the whole loop: at the first line json.loads  *)
(* refuses, the reading stops and what was decoded so far is returned.     *)
(***************************************************************************)
_read_file(w, filepath) ==
    IF ~w.fs[filepath].exists THEN <<>>
    ELSE LET lines == w.fs[filepath].lines
             bad == {i \in DOMAIN lines : ~Decodable(lines[i])}
             n == IF bad = {} THEN Len(lines)
                  ELSE (CHOOSE i \in bad : \A j \in bad : i <= j) - 1
         IN  [i \in 1..n |-> json_loads(lines[i])]

\* sink_of with no sink for a surface that is none of the three
sink_of_unknown_dropped(lg, surface) ==
    IF surface = OPERATIONAL THEN lg.operational_file
    ELSE IF surface = COGNITIVE THEN lg.cognitive_file
    ELSE IF surface = CONTEXTUAL THEN lg.contextual_file
    ELSE NoPath

\* sink_of with a contextual envelope sent to the operational sink when
\* there is no contextual sink
sink_of_contextual_fallback(lg, surface) ==
    IF surface = COGNITIVE THEN lg.cognitive_file
    ELSE IF surface = CONTEXTUAL /\ lg.contextual_file # NoPath
         THEN lg.contextual_file
    ELSE lg.operational_file

(***************************************************************************)
(* ALogger.record, lines 110-122: the sink an envelope of this surface is  *)
(* appended to; NoPath when it is appended to none.                        *)
(***************************************************************************)
sink_of(lg, surface) ==
    IF surface = OPERATIONAL THEN lg.operational_file
    ELSE IF surface = COGNITIVE THEN lg.cognitive_file
    ELSE IF surface = CONTEXTUAL
         THEN (IF lg.contextual_file # NoPath THEN lg.contextual_file
               ELSE NoPath)
    ELSE lg.operational_file

\* trace_id_of with a fixed default in the place of uuid4()
trace_id_fixed_default(current_trace_id, trace_id, fresh) ==
    IF trace_id = None
    THEN (IF current_trace_id # None THEN current_trace_id
          ELSE PyName("trace"))
    ELSE trace_id

\* trace_id_of without the look at the retained identifier
trace_id_always_fresh(current_trace_id, trace_id, fresh) ==
    IF trace_id = None THEN fresh ELSE trace_id

(***************************************************************************)
(* ALogger.record, lines 90-93: the trace_id of an envelope.  fresh is the *)
(* identifier uuid4() gives if it is called.                               *)
(***************************************************************************)
trace_id_of(current_trace_id, trace_id, fresh) ==
    IF trace_id = None
    THEN (IF current_trace_id # None THEN current_trace_id ELSE fresh)
    ELSE trace_id

\* retained_after with the assignment moved out of the "is None" branch
retained_overwritten(current_trace_id, trace_id, fresh) ==
    IF trace_id = None
    THEN (IF current_trace_id # None THEN current_trace_id ELSE fresh)
    ELSE trace_id

\* ... and what the Logger retains after the call
retained_after(current_trace_id, trace_id, fresh) ==
    IF trace_id = None
    THEN trace_id_of(current_trace_id, trace_id, fresh)
    ELSE current_trace_id

\* the try around self.otel.emit_span left out: its failure reaches the caller
span_failure_uncaught(e) == [kind |-> "raise", exc |-> e]

\* core.py:125-129, try: self.otel.emit_span(...) except Exception: what a
\* failure e of the span bridge makes of the call of record (None: the call
\* returns normally)
span_failure(e) ==
    IF e.type \in {"RuntimeError", "ValueError", "TypeError"} THEN None
    ELSE [kind |-> "raise", exc |-> e]

(***************************************************************************)
(* ALogger.record, first its lines 89-108 (record_begin: the identifiers   *)
(* and the envelope), then the write and the span.                         *)
(* env is what the environment does during the call:                       *)
(* whether the sink can be opened (io), how far the clock moves (dt), and  *)
(* whether the tracing backend takes the span or raises (span).  The entry *)
(* of the history holds the envelope built, and in raised what the call    *)
(* raised to its caller (None when it returned).                           *)
(***************************************************************************)
record_begin(w, surface, agent, event, level, trace_id, span_id, env) ==
    LET lg == w.logger
        bridged == lg.enable_otel /\ lg.otel # None
        span_raises == bridged /\ lg.otel.tracer /\ env.span = "raises"
        draws_trace == trace_id = None /\ lg.current_trace_id = None
        n1 == w.uuid_count + (IF draws_trace THEN 1 ELSE 0)
        tid == trace_id_of(lg.current_trace_id, trace_id, UuidStr(n1))
        n2 == n1 + (IF span_id = None THEN 1 ELSE 0)
        sid == IF span_id = None THEN UuidStr(n2) ELSE span_id
        n3 == n2 + 1
        log_entry ==
            PyDict([id |-> UuidStr(n3),
                    timestamp |-> IsoStr(w.clock),
                    agent |-> agent,
                    surface |-> surface,
                    level |-> level,
                    trace_id |-> tid,
                    span_id |-> sid,
                    event |-> event])
    IN  [w EXCEPT
                 !.uuid_count = n3,
                 !.clock = @ + env.dt,
                 !.logger.current_trace_id =
                     retained_after(@, trace_id, UuidStr(n1)),
                 !.calls = Append(@, [op |-> "record",
                                      log_entry |-> log_entry,
                                      trace_id |-> trace_id,
                                      retained |-> lg.current_trace_id,
                                      env |-> env,
                                      raised |->
                                         IF span_raises
                                         THEN span_failure(
                                                [type |-> "RuntimeError",
                                                 msg |-> "no span"])
                                         ELSE None])]

record(w, surface, agent, event, level, trace_id, span_id, env) ==
    LET lg == w.logger
        bridged == lg.enable_otel /\ lg.otel # None
        span_raises == bridged /\ lg.otel.tracer /\ env.span = "raises"
        w1 == record_begin(w, surface, agent, event, level, trace_id,
                           span_id, env)
        log_entry == w1.calls[Len(w1.calls)].log_entry
        w2 == IF sink_of(lg, surface) = NoPath THEN w1
              ELSE _write_to_file(w1, sink_of(lg, surface), log_entry, env.io)
    IN  IF bridged /\ ~span_raises
        THEN emit_span(w2, surface, agent, event)
        ELSE w2

(***************************************************************************)
(* ALogger.record_operational / record_cognitive / record_contextual: the  *)
(* payload of the surface, every field present (None when not given), and  *)
(* the call of record.  kw holds the keyword arguments the caller gives.   *)
(***************************************************************************)
EmptyDict == PyDict([k \in {} |-> None])

\* metadata or {}
or_empty_dict(metadata) ==
    IF metadata = None \/ (metadata.py = "dict" /\ DOMAIN metadata.d = {})
    THEN EmptyDict ELSE metadata

INFO == PyName("INFO")
ERROR == PyName("ERROR")

record_operational(w, kw, env) ==
    LET event ==
          PyDict([method |-> kw.method,
                  status |-> kw.status,
                  duration_sec |-> Arg(kw, "duration_sec", None),
                  tool_name |-> Arg(kw, "tool_name", None),
                  tool_parameters |-> Arg(kw, "tool_parameters", None),
                  result_summary |-> Arg(kw, "result_summary", None),
                  error |-> Arg(kw, "error", None),
                  token_usage |-> Arg(kw, "token_usage", None),
                  latency_ms |-> Arg(kw, "latency_ms", None),
                  caller |-> Arg(kw, "caller", None),
                  metadata |-> or_empty_dict(Arg(kw, "metadata", None))])
    IN  record(w, OPERATIONAL, kw.agent, event, Arg(kw, "level", INFO),
               Arg(kw, "trace_id", None), Arg(kw, "span_id", None), env)

\* the cap on a recorded thought (core.py:202) and the marker appended
ThoughtCap == 2000
Ellipsis == <<".", ".", ".">>

\* core.py:202-203
truncate_thought(thought) ==
    IF thought # None /\ Len(thought.s) > ThoughtCap
    THEN PyStr(SubSeq(thought.s, 1, ThoughtCap) \o Ellipsis)
    ELSE thought

record_cognitive(w, kw, env) ==
    LET event ==
          PyDict([reasoning_step |-> Arg(kw, "reasoning_step", None),
                  thought |-> truncate_thought(Arg(kw, "thought", None)),
                  plan |-> Arg(kw, "plan", None),
                  reflection |-> Arg(kw, "reflection", None),
                  confidence |-> Arg(kw, "confidence", None),
                  goal |-> Arg(kw, "goal", None),
                  model |-> Arg(kw, "model", None),
                  token_count |-> Arg(kw, "token_count", None),
                  prompt_excerpt |-> Arg(kw, "prompt_excerpt", None),
                  completion_excerpt |-> Arg(kw, "completion_excerpt", None)])
    IN  record(w, COGNITIVE, kw.agent, event, Arg(kw, "level", INFO),
               Arg(kw, "trace_id", None), Arg(kw, "span_id", None), env)

record_contextual(w, kw, env) ==
    LET event ==
          PyDict([operation |-> kw.operation,
                  source_type |-> Arg(kw, "source_type", None),
                  source_name |-> Arg(kw, "source_name", None),
                  query |-> Arg(kw, "query", None),
                  retrieved_count |-> Arg(kw, "retrieved_count", None),
                  retrieved_items |-> Arg(kw, "retrieved_items", None),
                  provenance |-> Arg(kw, "provenance", None),
                  cache_hit |-> Arg(kw, "cache_hit", None),
                  write_value |-> Arg(kw, "write_value", None),
                  memory_state_hash |-> Arg(kw, "memory_state_hash", None),
                  metadata |-> or_empty_dict(Arg(kw, "metadata", None))])
    IN  record(w, CONTEXTUAL, kw.agent, event, Arg(kw, "level", INFO),
               Arg(kw, "trace_id", None), Arg(kw, "span_id", None), env)

(***************************************************************************)
(* ALogger.get_logs: the entries of the operational, the cognitive and the *)
(* contextual sink (when there is one), each read when surface is None or  *)
(* names it, in that order.                                                *)
(***************************************************************************)
get_logs(w, surface) ==
    LET lg == w.logger
    IN  (IF surface = None \/ surface = OPERATIONAL
         THEN _read_file(w, lg.operational_file) ELSE <<>>)
        \o (IF surface = None \/ surface = COGNITIVE
            THEN _read_file(w, lg.cognitive_file) ELSE <<>>)
        \o (IF (surface = None \/ surface = CONTEXTUAL)
               /\ lg.contextual_file # NoPath
            THEN _read_file(w, lg.contextual_file) ELSE <<>>)

\* clear_logs with the contextual sink left out of the files to clear
clear_logs_two_sinks(w, stuck) ==
    [w EXCEPT !.fs =
        [f \in DOMAIN @ |->
            IF f \in {w.logger.operational_file, w.logger.cognitive_file}
                  /\ @[f].exists /\ f \notin stuck
            THEN NoFile ELSE @[f]]]

\* ALogger.clear_logs: every sink of the Logger that exists is removed.
\* stuck holds the files os.remove raises on: the exception is caught and
\* the file stays as it is.
clear_logs(w, stuck) ==
    LET lg == w.logger
        files_to_clear ==
            {lg.operational_file, lg.cognitive_file}
              \cup (IF lg.contextual_file # NoPath
                    THEN {lg.contextual_file} ELSE {})
    IN  [w EXCEPT !.fs =
            [f \in DOMAIN @ |->
                IF f \in files_to_clear /\ @[f].exists /\ f \notin stuck
                THEN NoFile ELSE @[f]]]

\* get_stats with the contextual entries left out of the total
get_stats_total_without_contextual(w) ==
    LET lg == w.logger
        n_op == Len(_read_file(w, lg.operational_file))
        n_cog == Len(_read_file(w, lg.cognitive_file))
    IN  IF lg.contextual_file # NoPath
        THEN [operational_events |-> n_op,
              cognitive_events |-> n_cog,
              contextual_events |-> Len(_read_file(w, lg.contextual_file)),
              total_events |-> n_op + n_cog]
        ELSE [operational_events |-> n_op,
              cognitive_events |-> n_cog,
              total_events |-> n_op + n_cog]

(***************************************************************************)
(* ALogger.get_stats: the number of entries read from each sink; the       *)
(* contextual count is present only when there is a contextual sink.       *)
(***************************************************************************)
get_stats(w) ==
    LET lg == w.logger
        operational_logs == _read_file(w, lg.operational_file)
        cognitive_logs == _read_file(w, lg.cognitive_file)
        contextual_logs ==
            IF lg.contextual_file # NoPath
            THEN _read_file(w, lg.contextual_file) ELSE <<>>
        stats ==
            [operational_events |-> Len(operational_logs),
             cognitive_events |-> Len(cognitive_logs),
             total_events |-> Len(operational_logs) + Len(cognitive_logs)]
    IN  IF lg.contextual_file # NoPath
        THEN [operational_events |-> stats.operational_events,
              cognitive_events |-> stats.cognitive_events,
              contextual_events |-> Len(contextual_logs),
              total_events |-> stats.total_events + Len(contextual_logs)]
        ELSE stats

(***************************************************************************)
(* Text.  str.strip() removes the whitespace at both ends.                 *)
(***************************************************************************)
Whitespace == {" ", "\n", "\t"}

Min(S) == CHOOSE x \in S : \A y \in S : x <= y
Max(S) == CHOOSE x \in S : \A y \in S : y <= x

\* str.lstrip() in the place of str.strip()
lstrip(s) ==
    LET inked == {i \in 1..Len(s) : s[i] \notin Whitespace}
    IN  IF inked = {} THEN <<>> ELSE SubSeq(s, Min(inked), Len(s))

strip(s) ==
    LET inked == {i \in 1..Len(s) : s[i] \notin Whitespace}
    IN  IF inked = {} THEN <<>> ELSE SubSeq(s, Min(inked), Max(inked))

\* the text m occurs in s at position i
IsAt(s, i, m) ==
    /\ i + Len(m) - 1 <= Len(s)
    /\ \A k \in 1..Len(m) : s[i + k - 1] = m[k]

Occurrences(s, m) == {i \in 1..Len(s) : IsAt(s, i, m)}

(***************************************************************************)
(* The reasoning trace markers (auto.py:30-31).                            *)
(***************************************************************************)
TRACE_START ==
    <<"=", "=", "=", "R", "E", "A", "S", "O", "N", "I", "N", "G", "_",
      "T", "R", "A", "C", "E", "_", "S", "T", "A", "R", "T", "=", "=", "=">>

TRACE_END ==
    <<"=", "=", "=", "R", "E", "A", "S", "O", "N", "I", "N", "G", "_",
      "T", "R", "A", "C", "E", "_", "E", "N", "D", "=", "=", "=">>

\* pattern.search with the group greedy, (.*), instead of lazy, (.*?)
pattern_search_greedy(output) ==
    LET starts == Occurrences(output, TRACE_START)
        ends == Occurrences(output, TRACE_END)
        matching ==
            {i \in starts : \E j \in ends : j >= i + Len(TRACE_START)}
    IN  IF matching = {} THEN [found |-> FALSE]
        ELSE [found |-> TRUE, start |-> Min(matching), close |-> Max(ends)]

(***************************************************************************)
(* pattern.search(output), auto.py:47-51: the leftmost start marker that   *)
(* an end marker follows, and the first end marker after it (the group is  *)
(* lazy and DOTALL lets it run over line breaks).  start is where the      *)
(* start marker begins, close where the end marker begins.                 *)
(***************************************************************************)
pattern_search(output) ==
    LET starts == Occurrences(output, TRACE_START)
        ends == Occurrences(output, TRACE_END)
        matching ==
            {i \in starts : \E j \in ends : j >= i + Len(TRACE_START)}
    IN  IF matching = {} THEN [found |-> FALSE]
        ELSE LET i == Min(matching)
             IN  [found |-> TRUE, start |-> i,
                  close |-> Min({j \in ends : j >= i + Len(TRACE_START)})]

\* _extract_reasoning_trace cutting the span of the group, match.start(1) to
\* match.end(1), out of the text instead of the span of the whole match
extract_cutting_group_only(output) ==
    IF ~isinstance_str(output) THEN <<output, None>>
    ELSE LET match == pattern_search(output.s)
         IN  IF ~match.found THEN <<PyStr(strip(output.s)), None>>
             ELSE LET group1 ==
                         SubSeq(output.s, match.start + Len(TRACE_START),
                                match.close - 1)
                      before ==
                         SubSeq(output.s, 1,
                                match.start + Len(TRACE_START) - 1)
                      after == SubSeq(output.s, match.close, Len(output.s))
                  IN  <<PyStr(strip(before \o after)), PyStr(strip(group1))>>

(***************************************************************************)
(* _extract_reasoning_trace: <<main_output, reasoning>>.                   *)
(***************************************************************************)
_extract_reasoning_trace(output) ==
    IF ~isinstance_str(output) THEN <<output, None>>
    ELSE LET match == pattern_search(output.s)
         IN  IF ~match.found THEN <<PyStr(strip(output.s)), None>>
             ELSE LET group1 ==
                         SubSeq(output.s, match.start + Len(TRACE_START),
                                match.close - 1)
                      before == SubSeq(output.s, 1, match.start - 1)
                      after ==
                         SubSeq(output.s, match.close + Len(TRACE_END),
                                Len(output.s))
                  IN  <<PyStr(strip(before \o after)), PyStr(strip(group1))>>

(***************************************************************************)
(* What a call gives its caller: a value returned or an exception raised.  *)
(***************************************************************************)
Return(value) == [kind |-> "return", value |-> value]
Raise(exc) == [kind |-> "raise", exc |-> exc]
Exc(type, msg) == [type |-> type, msg |-> msg]

\* the classes derived from Exception; KeyboardInterrupt, SystemExit and
\* GeneratorExit derive from BaseException only
ExceptionClasses == {"ValueError", "RuntimeError", "TypeError"}

\* "except Exception" with every exception caught, as "except BaseException"
except_BaseException(e) == TRUE

\* auto.py:233, "except Exception as e": whether the handler takes e
except_Exception(e) == e.type \in ExceptionClasses

\* auto.py:256, the bare "raise": the caught exception itself
reraise(e) == Raise(e)

(***************************************************************************)
(* bool(value) and str(value) of the values a method returns.  The truth   *)
(* value of a pandas DataFrame (a numpy array) is ambiguous: its __bool__  *)
(* raises ValueError.                                                      *)
(***************************************************************************)
py_bool(value) ==
    CASE value.py = "NoneType" -> Return(FALSE)
      [] value.py = "str" -> Return(value.s # <<>>)
      [] value.py = "int" -> Return(value.n # 0)
      [] value.py = "DataFrame" ->
            Raise(Exc("ValueError", "The truth value of a DataFrame is ambiguous"))
      [] OTHER -> Return(TRUE)

Digits == <<"0", "1", "2", "3", "4", "5", "6", "7", "8", "9">>

RECURSIVE Decimal(_)
Decimal(n) ==
    IF n < 10 THEN <<Digits[n + 1]>>
    ELSE Decimal(n \div 10) \o <<Digits[(n % 10) + 1]>>

py_str(value) ==
    CASE value.py = "NoneType" -> <<"N", "o", "n", "e">>
      [] value.py = "str" -> value.s
      [] value.py = "int" -> Decimal(value.n)
      [] OTHER -> <<"<">> \o <<value.py>> \o <<">">>

\* the length a result summary is cut to (auto.py:208)
SummaryCap == 100

(***************************************************************************)
(* auto.py:208, the result summary of the complete event:                  *)
(*   str(result)[:100] + "..." if result and len(str(result)) > 100        *)
(*   else str(result)                                                      *)
(* The condition takes bool(result) first, which may raise.                *)
(***************************************************************************)
result_summary(result) ==
    LET truthy == py_bool(result)
    IN  IF truthy.kind = "raise" THEN truthy
        ELSE IF truthy.value /\ Len(py_str(result)) > SummaryCap
             THEN Return(PyStr(SubSeq(py_str(result), 1, SummaryCap)
                               \o Ellipsis))
             ELSE Return(PyStr(py_str(result)))

\* the shape of the arguments, as the events carry it
args_shape(args) ==
    [args_count |-> PyInt(args.args_count),
     kwargs_keys |-> PyList(args.kwargs_keys)]

Elapsed == PyFloat("elapsed")

\* logged_wrapper with no start event
wrapper_before_silent(w, agent_name, method_name, args, env) == w

(***************************************************************************)
(* logged_wrapper up to the call of the original method (auto.py:181-193): *)
(* the start event.                                                        *)
(***************************************************************************)
wrapper_before(w, agent_name, method_name, args, env) ==
    record_operational(w,
        [agent |-> agent_name, method |-> method_name,
         status |-> PyName("start"), metadata |-> PyDict(args_shape(args))],
        env)

(***************************************************************************)
(* logged_wrapper from the return of the original method (auto.py:197-256).*)
(* original is what the original method gave: a value or an exception.     *)
(* Everything from the call to the return of the result is inside the try: *)
(* an exception of the summary is handled like one of the method.          *)
(***************************************************************************)
wrapper_after(w, agent_name, method_name, args, original, env) ==
    LET handler(e) ==
            IF except_Exception(e)
            THEN [w |-> record_operational(w,
                          [agent |-> agent_name, method |-> method_name,
                           status |-> PyName("error"),
                           duration_sec |-> Elapsed,
                           error |-> PyName(e.type \o ": " \o e.msg),
                           metadata |->
                              PyDict([error_type |-> PyName(e.type),
                                      args_count |->
                                         args_shape(args).args_count,
                                      kwargs_keys |->
                                         args_shape(args).kwargs_keys]),
                           level |-> ERROR],
                          env),
                  outcome |-> reraise(e)]
            ELSE [w |-> w, outcome |-> Raise(e)]
    IN  IF original.kind = "raise" THEN handler(original.exc)
        ELSE
        LET result == original.value
            summary == result_summary(result)
        IN  IF summary.kind = "raise" THEN handler(summary.exc)
            ELSE
            LET w1 == record_operational(w,
                        [agent |-> agent_name, method |-> method_name,
                         status |-> PyName("complete"),
                         duration_sec |-> Elapsed,
                         result_summary |-> summary.value,
                         metadata |->
                            PyDict([result_type |->
                                      IF result # None THEN PyName(result.py)
                                      ELSE PyName("None")])],
                        env)
                extracted == _extract_reasoning_trace(result)
                main_output == extracted[1]
                reasoning == extracted[2]
            IN  IF result # None /\ isinstance_str(result)
                   /\ reasoning # None /\ reasoning.s # <<>>
                THEN [w |-> record_cognitive(w1,
                               [agent |-> agent_name,
                                thought |-> reasoning,
                                goal |-> PyName("Execute " \o method_name.a),
                                model |-> PyName("agent_method")],
                               env),
                      outcome |-> Return(main_output)]
                ELSE [w |-> w1, outcome |-> Return(result)]

\* logged_wrapper around an original method that makes no call of its own
logged_wrapper(w, agent_name, method_name, args, original, env) ==
    wrapper_after(wrapper_before(w, agent_name, method_name, args, env),
                  agent_name, method_name, args, original, env)

(***************************************************************************)
(* The target of instrument_agent: its attributes by name, each callable   *)
(* or not, a callable one with the wrappers put around it, outermost       *)
(* first, each known by the agent name it was created with.                *)
(***************************************************************************)
NoAttributes == [attr \in {} |-> None]
Attribute(callable) == [callable |-> callable, layers |-> <<>>]

\* the reference instrument_agent is given and returns
TargetRef == PyObject("agent")

\* attr.startswith("_"), over the attribute names of the targets modelled
startswith_underscore(attr) == attr \in {"_step", "__call__"}

\* hasattr(agent, m) alone, the attribute callable or not
hasattr_only(tgt, m) == m \in DOMAIN tgt

\* hasattr(agent, m) and callable(getattr(agent, m))
has_callable(tgt, m) == m \in DOMAIN tgt /\ tgt[m].callable

\* setattr(agent, method_name, _create_logged_wrapper(original, name, ...))
set_wrapped(tgt, method_name, name) ==
    [tgt EXCEPT ![method_name].layers = <<name>> \o @]

\* the loop of auto.py:152-155 over a list of names
RECURSIVE wrap_each(_, _, _)
wrap_each(tgt, target_methods, name) ==
    IF target_methods = <<>> THEN tgt
    ELSE wrap_each(set_wrapped(tgt, Head(target_methods), name),
                   Tail(target_methods), name)

\* dir(agent) filtered (auto.py:136-140): the names are distinct, so that
\* the order of the wrapping does not matter
RECURSIVE public_callables(_, _)
public_callables(tgt, names) ==
    IF names = {} THEN <<>>
    ELSE LET attr == CHOOSE a \in names : TRUE
             rest == public_callables(tgt, names \ {attr})
         IN  IF ~startswith_underscore(attr) /\ tgt[attr].callable
             THEN <<attr>> \o rest
             ELSE rest

\* instrument_agent with the check of the global Logger left out
instrument_agent_unchecked(w, name, methods) ==
    LET target_methods ==
            IF methods = None
            THEN public_callables(w.target, DOMAIN w.target)
            ELSE SelectSeq(methods.items,
                               LAMBDA m : has_callable(w.target, m))
    IN  [w |-> [w EXCEPT !.target = wrap_each(@, target_methods, name)],
         outcome |-> Return(TargetRef)]

\* instrument_agent taking every list of names for no list at all
instrument_agent_ignoring_list(w, name, methods) ==
    IF w.logger = None
    THEN [w |-> w,
          outcome |->
             Raise(Exc("RuntimeError",
                       "A-LOG not initialized. Call init() first."))]
    ELSE instrument_agent_unchecked(w, name, None)

(***************************************************************************)
(* instrument_agent(agent, name, methods): w.logger is the module's        *)
(* _global_logger, None until init().  methods is None or a list of names. *)
(***************************************************************************)
instrument_agent(w, name, methods) ==
    IF w.logger = None
    THEN [w |-> w,
          outcome |->
             Raise(Exc("RuntimeError",
                       "A-LOG not initialized. Call init() first."))]
    ELSE LET target_methods ==
                IF methods = None
                THEN public_callables(w.target, DOMAIN w.target)
                ELSE SelectSeq(methods.items,
                               LAMBDA m : has_callable(w.target, m))
         IN  IF target_methods = <<>>
             THEN [w |-> w, outcome |-> Return(TargetRef)]
             ELSE [w |-> [w EXCEPT
                            !.target = wrap_each(@, target_methods, name)],
                   outcome |-> Return(TargetRef)]

(***************************************************************************)
(* init(...): the global Logger is created anew.  kw holds the keyword     *)
(* arguments given; enable_otel left out is read from the environment      *)
(* variable ALOG_ENABLE_OTEL, save_contextual_to_file left out is False.   *)
(* installed tells whether the OpenTelemetry packages can be imported.     *)
(***************************************************************************)
init(w, kw, environ, installed) ==
    LET enable_otel ==
            IF "enable_otel" \in DOMAIN kw THEN kw.enable_otel
            ELSE Arg(environ, "ALOG_ENABLE_OTEL", "false")
                    \in {"true", "1", "yes"}
    IN  [w EXCEPT !.logger =
            ALogger(Arg(kw, "save_contextual_to_file", FALSE),
                    enable_otel, installed)]

\* a call that goes through the outermost wrapper alone
call_through_outermost(w, layers, method_name, args, original, env) ==
    IF layers = <<>> THEN [w |-> w, outcome |-> original]
    ELSE logged_wrapper(w, Head(layers), method_name, args, original, env)

(***************************************************************************)
(* A call of an attribute of the target: through its wrappers, outermost   *)
(* first, down to the original method, and back.                           *)
(***************************************************************************)
RECURSIVE call_through(_, _, _, _, _, _)
call_through(w, layers, method_name, args, original, env) ==
    IF layers = <<>> THEN [w |-> w, outcome |-> original]
    ELSE LET inner ==
                call_through(
                    wrapper_before(w, Head(layers), method_name, args, env),
                    Tail(layers), method_name, args, original, env)
         IN  wrapper_after(inner.w, Head(layers), method_name, args,
                           inner.outcome, env)

(***************************************************************************)
(* The merge utility, scripts/view_logs.py export_unified(logs_dir,        *)
(* output_file): a Logger over the directory with the contextual sink      *)
(* read too, the envelopes of the three sinks one after the other, sorted  *)
(* by timestamp (list.sort is stable), written to output_file opened in    *)
(* mode 'w'.                                                               *)
(***************************************************************************)
timestamp_key(log) == log.d.timestamp.iso

RECURSIVE sorted_by_timestamp(_)
sorted_by_timestamp(logs) ==
    IF logs = <<>> THEN <<>>
    ELSE LET front == sorted_by_timestamp(SubSeq(logs, 1, Len(logs) - 1))
             x == logs[Len(logs)]
             keep == {i \in DOMAIN front :
                        timestamp_key(front[i]) <= timestamp_key(x)}
             n == Cardinality(keep)
         IN  SubSeq(front, 1, n) \o <<x>> \o SubSeq(front, n + 1, Len(front))

export_unified(w, output_file) ==
    LET viewer == [w EXCEPT !.logger = ALogger(TRUE, FALSE, FALSE)]
        all_logs == sorted_by_timestamp(
                        get_logs(viewer, OPERATIONAL)
                          \o get_logs(viewer, COGNITIVE)
                          \o get_logs(viewer, CONTEXTUAL))
    IN  [w EXCEPT !.fs[output_file] =
            [exists |-> TRUE,
             lines |-> [i \in DOMAIN all_logs |-> json_dumps(all_logs[i])]]]

\* no thread is inside record
NoThreads == [t \in {} |-> None]

(***************************************************************************)
(* The operations of the Logger as actions.  ret is what the caller gets.  *)
(***************************************************************************)
Returned(op, val) == [op |-> op, val |-> val]

\* what the record call that made the last entry of the history gave its
\* caller: None, or the exception it raised
record_outcome(w) == w.calls[Len(w.calls)].raised

Record(surface, agent, event, trace_id, env) ==
    /\ SetWorld(record(World, surface, agent, event, INFO, trace_id, None, env))
    /\ ret' = Returned("record", record_outcome([calls |-> calls']))

RecordOperational(kw, env) ==
    /\ SetWorld(record_operational(World, kw, env))
    /\ ret' = Returned("record_operational", record_outcome([calls |-> calls']))

RecordCognitive(kw, env) ==
    /\ SetWorld(record_cognitive(World, kw, env))
    /\ ret' = Returned("record_cognitive", record_outcome([calls |-> calls']))

RecordContextual(kw, env) ==
    /\ SetWorld(record_contextual(World, kw, env))
    /\ ret' = Returned("record_contextual", record_outcome([calls |-> calls']))

GetLogs(surface) ==
    /\ ret' = [op |-> "get_logs", surface |-> surface,
               val |-> get_logs(World, surface)]
    /\ UNCHANGED <<logger, fs, spans, uuid_count, clock, calls, target, threads>>

GetStats ==
    /\ ret' = Returned("get_stats", get_stats(World))
    /\ UNCHANGED <<logger, fs, spans, uuid_count, clock, calls, target, threads>>

\* the history notes the clear, so that what was recorded since can be told
ClearLogs(stuck) ==
    /\ SetWorld([clear_logs(World, stuck) EXCEPT
                    !.calls = Append(@, [op |-> "clear_logs",
                                         failed |->
                                            {f \in stuck :
                                               fs[f].exists /\
                                               clear_logs(World, {}).fs[f]
                                                  # fs[f]},
                                         retained |->
                                            logger.current_trace_id])])
    /\ ret' = Returned("clear_logs", None)

(***************************************************************************)
(* Init: a Logger just constructed over an empty output directory.         *)
(***************************************************************************)
Loggers ==
    {ALogger(s, FALSE, FALSE) : s \in BOOLEAN}
      \cup {ALogger(s, TRUE, t) : s \in BOOLEAN, t \in BOOLEAN}

Init ==
    /\ logger \in Loggers
    /\ fs = [f \in Files |-> NoFile]
    /\ spans = <<>>
    /\ uuid_count = 0
    /\ clock = 0
    /\ calls = <<>>
    /\ target = NoAttributes
    /\ threads = NoThreads
    /\ ret = Returned("__init__", None)

(***************************************************************************)
(* Spec: the Logger under record calls of every surface, with payloads     *)
(* JSON keeps (EvPlain), changes (EvTuple: a tuple) and refuses (EvSet),   *)
(* with sinks that can and cannot be opened, interleaved with reads and    *)
(* clears.                                                                 *)
(***************************************************************************)
AGENT == PyName("Agent")
AUDIT == PyName("audit")
Surfaces == {OPERATIONAL, COGNITIVE, CONTEXTUAL, AUDIT}

EvPlain == PyDict([note |-> PyInt(1)])
EvTuple == PyDict([note |-> PyTuple(<<PyInt(1), PyInt(2)>>)])
EvSet == PyDict([note |-> PySet])

IoOk == [io |-> "ok", dt |-> 1, span |-> "ok"]
IoFails == [io |-> "open_fails", dt |-> 1, span |-> "ok"]
SpanFails == [io |-> "ok", dt |-> 1, span |-> "raises"]

RecordInputs ==
    {<<s, EvPlain, IoOk>> : s \in Surfaces}
      \cup {<<OPERATIONAL, e, IoOk>> : e \in {EvTuple, EvSet}}
      \cup {<<COGNITIVE, EvPlain, IoFails>>}
      \cup {<<AUDIT, EvSet, IoOk>>, <<AUDIT, EvPlain, IoFails>>}

OperationalKws ==
    {[agent |-> AGENT, method |-> PyName("run"), status |-> PyName("start")]}
CognitiveKws ==
    {[agent |-> AGENT, thought |-> PyStr(<<"o", "k">>)]}
ContextualKws ==
    {[agent |-> AGENT, operation |-> PyName("store"), write_value |-> v] :
        v \in {PyInt(1), PySet}}

CallRecord ==
    /\ Len(calls) < MaxCalls
    /\ \E i \in RecordInputs : Record(i[1], AGENT, i[2], None, i[3])

CallRecordOperational ==
    /\ Len(calls) < MaxCalls
    /\ \E kw \in OperationalKws : RecordOperational(kw, IoOk)

CallRecordCognitive ==
    /\ Len(calls) < MaxCalls
    /\ \E kw \in CognitiveKws : RecordCognitive(kw, IoOk)

CallRecordContextual ==
    /\ Len(calls) < MaxCalls
    /\ \E kw \in ContextualKws : RecordContextual(kw, IoOk)

CallClearLogs ==
    /\ Len(calls) < MaxCalls
    /\ ClearLogs({})

CallGetLogs == \E surface \in Surfaces \cup {None} : GetLogs(surface)

Next ==
    \/ CallRecord
    \/ CallRecordOperational
    \/ CallRecordCognitive
    \/ CallRecordContextual
    \/ CallClearLogs
    \/ CallGetLogs
    \/ GetStats

Spec == Init /\ [][Next]_vars

(***************************************************************************)
(* SpecTrace: the trace context under record calls that give and omit      *)
(* trace_id, interleaved with reads and clears.                            *)
(***************************************************************************)
MaxTraceCalls == 3

TRACE_A == PyName("trace-A")
TraceArgs == {None, TRACE_A}

TraceRecord ==
    /\ Len(calls) < MaxTraceCalls
    /\ \E surface \in {OPERATIONAL, CONTEXTUAL}, trace_id \in TraceArgs :
          Record(surface, AGENT, EvPlain, trace_id, IoOk)

TraceRecordCognitive ==
    /\ Len(calls) < MaxTraceCalls
    /\ \E kw \in CognitiveKws, trace_id \in TraceArgs :
          RecordCognitive([agent |-> kw.agent, thought |-> kw.thought,
                           trace_id |-> trace_id], IoOk)

TraceClearLogs ==
    /\ Len(calls) < MaxTraceCalls
    /\ ClearLogs({})

NextTrace ==
    \/ TraceRecord
    \/ TraceRecordCognitive
    \/ TraceClearLogs
    \/ CallGetLogs
    \/ GetStats

SpecTrace == Init /\ [][NextTrace]_vars

(***************************************************************************)
(* SpecReset: SpecTrace and a reset of the trace context.  The Logger has  *)
(* no operation for it; a reset is taken to put current_trace_id back to   *)
(* None, the value the constructor gives it.                               *)
(***************************************************************************)
ResetTrace ==
    /\ Len(calls) < MaxTraceCalls
    /\ logger' = [logger EXCEPT !.current_trace_id = None]
    /\ calls' = Append(calls, [op |-> "reset",
                               retained |-> logger.current_trace_id])
    /\ ret' = Returned("reset", None)
    /\ UNCHANGED <<fs, spans, uuid_count, clock, target, threads>>

NextReset ==
    \/ TraceRecord
    \/ TraceRecordCognitive
    \/ TraceClearLogs
    \/ ResetTrace
    \/ CallGetLogs
    \/ GetStats

SpecReset == Init /\ [][NextReset]_vars

(***************************************************************************)
(* SpecExtract: the reasoning extractor applied to a text, and then to the *)
(* main text it returned.  The texts are made of up to MaxPieces pieces:   *)
(* the markers, the two halves of a start marker (which the removal of a   *)
(* marker pair can join), a letter and a blank.                            *)
(***************************************************************************)
START_HEAD == SubSeq(TRACE_START, 1, 21)
START_TAIL == SubSeq(TRACE_START, 22, Len(TRACE_START))

Pieces == {TRACE_START, TRACE_END, START_HEAD, START_TAIL, <<"a">>, <<" ">>}

RECURSIVE Concat(_)
Concat(ps) == IF ps = <<>> THEN <<>> ELSE Head(ps) \o Concat(Tail(ps))

\* the texts made of at most n of the pieces P
TextsOf(P, n) == {Concat(ps) : ps \in UNION {[1..k -> P] : k \in 0..n}}

ExtractInputs ==
    {PyStr(t) : t \in TextsOf(Pieces, MaxPieces)} \cup {None, PyInt(7)}

InitExtract == Init /\ logger = ALogger(TRUE, FALSE, FALSE)

Extract ==
    /\ ret.op = "__init__"
    /\ \E output \in ExtractInputs :
          ret' = [op |-> "extract", arg |-> output,
                  val |-> _extract_reasoning_trace(output)]
    /\ UNCHANGED <<logger, fs, spans, uuid_count, clock, calls, target, threads>>

ExtractMain ==
    /\ ret.op = "extract"
    /\ ret' = [op |-> "extract_main", arg |-> ret.arg, first |-> ret.val,
               val |-> _extract_reasoning_trace(ret.val[1])]
    /\ UNCHANGED <<logger, fs, spans, uuid_count, clock, calls, target, threads>>

NextExtract == Extract \/ ExtractMain

SpecExtract == InitExtract /\ [][NextExtract]_vars

(***************************************************************************)
(* SpecWrapper: calls of an instrumented method.  The original method      *)
(* returns None, a number, a DataFrame or a text, or raises; the texts are *)
(* made of up to MaxResultPieces pieces (the markers, a letter, a blank),  *)
(* and two hold a reasoning of ThoughtCap and ThoughtCap + 1 letters.      *)
(***************************************************************************)
MaxResultPieces == 5
\* the records already made when a call starts
MaxPriorRecords == 0

ResultPieces == {TRACE_START, TRACE_END, <<"r">>, <<" ">>}

LongResults ==
    {<<"r">> \o TRACE_START \o [i \in 1..n |-> "r"] \o TRACE_END :
        n \in {ThoughtCap, ThoughtCap + 1}}

ResultValues ==
    {None, PyInt(0), PyInt(7), PyObject("DataFrame")}
      \cup {PyStr(t) : t \in TextsOf(ResultPieces, MaxResultPieces)}
      \cup {PyStr(t) : t \in LongResults}

RaisedExceptions ==
    {Exc("ValueError", "boom"), Exc("KeyboardInterrupt", "")}

PROCESS == PyName("process")
OneArg == [args_count |-> 1, kwargs_keys |-> <<>>]

WrappedCall(method_name, args, original) ==
    LET r == logged_wrapper(World, AGENT, method_name, args, original, IoOk)
    IN  /\ Len(calls) <= MaxPriorRecords
        /\ SetWorld(r.w)
        /\ ret' = [op |-> "call", method |-> method_name,
                   original |-> original, val |-> r.outcome,
                   first |-> Len(calls)]

CallReturns == \E v \in ResultValues : WrappedCall(PROCESS, OneArg, Return(v))

CallRaises == \E e \in RaisedExceptions : WrappedCall(PROCESS, OneArg, Raise(e))

InitWrapper ==
    /\ Init
    /\ logger \in {ALogger(TRUE, FALSE, FALSE), ALogger(FALSE, TRUE, TRUE)}

NextWrapper == CallReturns \/ CallRaises

SpecWrapper == InitWrapper /\ [][NextWrapper]_vars

(***************************************************************************)
(* SpecInstrument: the module from import on.  The global Logger is None   *)
(* until init(); targets with and without public methods are instrumented, *)
(* with and without a list of method names, once or again, and their       *)
(* methods are called.                                                     *)
(***************************************************************************)
\* the wrappers put around one method
MaxLayers == 2

Targets ==
    {[attr \in names |-> Attribute(attr # "limit")] :
        names \in SUBSET {"run", "_step", "limit"}}

MethodLists ==
    {None} \cup
    {PyList(names) :
        names \in {<<>>, <<"run">>, <<"_step">>, <<"limit">>, <<"missing">>,
                   <<"run", "run">>, <<"limit", "run">>}}

InitKws ==
    {[k \in {} |-> FALSE], [save_contextual_to_file |-> TRUE],
     [enable_otel |-> TRUE]}

Environs == {[k \in {} |-> ""], [ALOG_ENABLE_OTEL |-> "true"]}

MethodOutcomes ==
    {Return(None),
     Return(PyStr(<<"r">> \o TRACE_START \o <<"r">> \o TRACE_END)),
     Return(PyStr(<<"r">> \o TRACE_START \o <<"r">> \o TRACE_END
                    \o TRACE_START \o <<"q">> \o TRACE_END)),
     Raise(Exc("ValueError", "boom"))}

InitInstrument ==
    /\ logger = None
    /\ fs = [f \in Files |-> NoFile]
    /\ spans = <<>>
    /\ uuid_count = 0
    /\ clock = 0
    /\ calls = <<>>
    /\ target \in Targets
    /\ threads = NoThreads
    /\ ret = Returned("import", None)

CallInit ==
    \E kw \in InitKws, environ \in Environs, installed \in BOOLEAN :
        /\ SetWorld(init(World, kw, environ, installed))
        /\ ret' = Returned("init", None)

CallInstrument ==
    \E methods \in MethodLists :
        LET r == instrument_agent(World, AGENT, methods)
        IN  /\ \A attr \in DOMAIN target :
                  Len(r.w.target[attr].layers) <= MaxLayers
            /\ SetWorld(r.w)
            /\ ret' = [op |-> "instrument_agent", methods |-> methods,
                       before |-> target, val |-> r.outcome,
                       first |-> Len(calls)]

CallMethod ==
    \E attr \in DOMAIN target, original \in MethodOutcomes :
        LET r == call_through(World, target[attr].layers, PyName(attr),
                              OneArg, original, IoOk)
        IN  /\ target[attr].callable
            /\ Len(calls) <= MaxPriorRecords
            /\ SetWorld(r.w)
            /\ ret' = [op |-> "call", method |-> PyName(attr),
                       original |-> original, val |-> r.outcome,
                       first |-> Len(calls)]

NextInstrument == CallInit \/ CallInstrument \/ CallMethod

SpecInstrument == InitInstrument /\ [][NextInstrument]_vars

(***************************************************************************)
(* SpecFaults: records and wrapped calls under a sink that cannot be       *)
(* opened and under a tracing backend that raises, on Loggers with and     *)
(* without the span bridge, with reads in between.                         *)
(***************************************************************************)
MaxFaultCalls == 2

Envs == {IoOk, IoFails, SpanFails}

FaultRecord ==
    /\ Len(calls) < MaxFaultCalls
    /\ \E surface \in {OPERATIONAL, COGNITIVE, CONTEXTUAL}, env \in Envs :
          Record(surface, AGENT, EvPlain, None, env)

FaultWrappedCall ==
    /\ Len(calls) < MaxFaultCalls
    /\ \E original \in MethodOutcomes, env \in Envs :
          LET r == logged_wrapper(World, AGENT, PROCESS, OneArg, original, env)
          IN  /\ SetWorld(r.w)
              /\ ret' = [op |-> "call", method |-> PROCESS,
                         original |-> original, val |-> r.outcome,
                         first |-> Len(calls), env |-> env]

NextFaults == FaultRecord \/ FaultWrappedCall \/ CallGetLogs \/ GetStats

SpecFaults == Init /\ [][NextFaults]_vars

(***************************************************************************)
(* SpecThreads: several threads inside record on one Logger.  The code     *)
(* takes no lock: each thread builds its envelope (record_begin), opens    *)
(* the sink for appending and writes the line.  The operating system       *)
(* takes the bytes of a line in one write call or, a write being allowed   *)
(* to take fewer bytes than it was given, in two; between the two, another *)
(* thread's bytes may be appended.  A sink line made of the pieces of      *)
(* several envelopes is kept as [torn |-> pieces, closed |-> whether the   *)
(* line has its line end].                                                 *)
(***************************************************************************)
NumThreads == 2
MaxThreadRecords == 1

Threads == 1..NumThreads

Idle(done) == [pc |-> "idle", done |-> done]

\* the bytes of a line reaching the end of a file: the whole line, or its
\* head (without the line end), or its tail
append_bytes(file, chunk) ==
    LET lines == file.lines
        n == Len(lines)
        open == n > 0 /\ ~Decodable(lines[n]) /\ ~lines[n].closed
        ends == chunk.part # "head"
    IN  IF open
        THEN LET pieces == Append(lines[n].torn, chunk)
             IN  IF pieces = <<[of |-> chunk.of, part |-> "head"],
                               [of |-> chunk.of, part |-> "tail"]>>
                 THEN [exists |-> TRUE,
                       lines |-> [lines EXCEPT ![n] = chunk.of]]
                 ELSE [exists |-> TRUE,
                       lines |-> [lines EXCEPT
                                    ![n] = [torn |-> pieces,
                                            closed |-> ends]]]
        ELSE [exists |-> TRUE,
              lines |-> IF chunk.part = "whole" THEN Append(lines, chunk.of)
                        ELSE Append(lines, [torn |-> <<chunk>>,
                                            closed |-> ends])]

\* record, line 92, in thread t: self.current_trace_id is read.  Nothing
\* keeps another thread from reading or assigning it before this thread
\* assigns it at line 93.
ThreadRead(t) ==
    /\ threads[t].pc = "idle"
    /\ threads[t].done < MaxThreadRecords
    /\ threads' = [threads EXCEPT
                     ![t] = [pc |-> "ids", done |-> threads[t].done,
                             seen |-> logger.current_trace_id]]
    /\ ret' = Returned("record_enter", t)
    /\ UNCHANGED <<logger, fs, spans, uuid_count, clock, calls, target>>

\* record, lines 92-108, in thread t, with the current trace identifier as
\* the thread read it: the envelope, and where it goes
ThreadRecord(t) ==
    \E surface \in {OPERATIONAL, COGNITIVE} :
        LET w == record_begin(
                    [World EXCEPT
                        !.logger.current_trace_id = threads[t].seen],
                    surface, AGENT, EvPlain, INFO, None, None, IoOk)
        IN  /\ threads[t].pc = "ids"
            /\ SetWorld([w EXCEPT
                  !.threads[t] =
                      [pc |-> "write", done |-> threads[t].done,
                       filepath |-> sink_of(logger, surface),
                       line |-> json_dumps(w.calls[Len(w.calls)].log_entry)]])
            /\ ret' = Returned("record_begin", t)

ThreadStep(t, pc, part, next) ==
    /\ threads[t].pc = pc
    /\ fs' = [fs EXCEPT ![threads[t].filepath] =
                append_bytes(@, [of |-> threads[t].line, part |-> part])]
    /\ threads' = [threads EXCEPT ![t] =
                     IF next = "idle" THEN Idle(threads[t].done + 1)
                     ELSE [@ EXCEPT !.pc = next]]
    /\ ret' = Returned("write", t)
    /\ UNCHANGED <<logger, spans, uuid_count, clock, calls, target>>

\* _write_to_file in thread t, the line taken by one write call
ThreadWrite == \E t \in Threads : ThreadStep(t, "write", "whole", "idle")

\* ... or by two
ThreadWriteHead == \E t \in Threads : ThreadStep(t, "write", "head", "rest")
ThreadWriteRest == \E t \in Threads : ThreadStep(t, "rest", "tail", "idle")

ThreadEnter == \E t \in Threads : ThreadRead(t)

ThreadBegin == \E t \in Threads : ThreadRecord(t)

\* get_logs, called when no thread is inside record
QuietGetLogs ==
    /\ \A t \in Threads : threads[t].pc = "idle"
    /\ CallGetLogs

InitThreads ==
    /\ logger = ALogger(TRUE, FALSE, FALSE)
    /\ fs = [f \in Files |-> NoFile]
    /\ spans = <<>>
    /\ uuid_count = 0
    /\ clock = 0
    /\ calls = <<>>
    /\ target = NoAttributes
    /\ threads = [t \in Threads |-> Idle(0)]
    /\ ret = Returned("__init__", None)

NextThreads ==
    \/ ThreadEnter
    \/ ThreadBegin
    \/ ThreadWrite
    \/ ThreadWriteHead
    \/ ThreadWriteRest
    \/ QuietGetLogs

SpecThreads == InitThreads /\ [][NextThreads]_vars

(***************************************************************************)
(* SpecGlobal: the global Logger of the module, as the demonstration       *)
(* agents use it: init() with and without options, with and without        *)
(* ALOG_ENABLE_OTEL in the environment, then contextual records through    *)
(* the global Logger and reads.  The history notes each init.              *)
(***************************************************************************)
MaxGlobalCalls == 3

GlobalInit ==
    /\ Len(calls) < MaxGlobalCalls
    /\ \E kw \in InitKws, environ \in Environs, installed \in BOOLEAN :
          /\ SetWorld([init(World, kw, environ, installed) EXCEPT
                          !.calls = Append(@, [op |-> "init", kw |-> kw,
                                               environ |-> environ,
                                               retained |-> None])])
          /\ ret' = Returned("init", None)

GlobalRecordContextual ==
    /\ logger # None
    /\ Len(calls) < MaxGlobalCalls
    /\ \E kw \in ContextualKws : RecordContextual(kw, IoOk)

GlobalGetLogs ==
    /\ logger # None
    /\ CallGetLogs

NextGlobal == GlobalInit \/ GlobalRecordContextual \/ GlobalGetLogs

\* the module is imported and nothing has been instrumented
InitGlobal ==
    /\ InitInstrument
    /\ target = NoAttributes

SpecGlobal == InitGlobal /\ [][NextGlobal]_vars

(***************************************************************************)
(* SpecMerge: records on the three surfaces, and the merge utility run     *)
(* over the directory with an output path that is the default one or the   *)
(* path of a sink.                                                         *)
(***************************************************************************)
MaxMergeRecords == 3

MergeRecord ==
    /\ Len(calls) < MaxMergeRecords
    /\ \E surface \in {OPERATIONAL, COGNITIVE, CONTEXTUAL} :
          Record(surface, AGENT, EvPlain, None, IoOk)

\* the sinks hold no more lines than records were made (a merge into a sink
\* puts the lines of the other sinks into it)
ExportUnified ==
    \E output_file \in Files :
        /\ Len(fs[OperationalPath].lines) + Len(fs[CognitivePath].lines)
              + Len(fs[ContextualPath].lines) <= MaxMergeRecords
        /\ SetWorld(export_unified(World, output_file))
        /\ ret' = [op |-> "export_unified", output_file |-> output_file,
                   before |-> fs]

InitMerge ==
    /\ Init
    /\ logger \in {ALogger(TRUE, FALSE, FALSE), ALogger(FALSE, FALSE, FALSE)}

NextMerge == MergeRecord \/ ExportUnified

SpecMerge == InitMerge /\ [][NextMerge]_vars

(***************************************************************************)
(* SpecSpan: records on a Logger with the span bridge and its tracer, the  *)
(* payload holding two attributes of every kind: null, scalar, sequence,   *)
(* map, JSON has a form for them or not, objects whose __str__ or          *)
(* __repr__ raise.                                                         *)
(***************************************************************************)
MaxSpanCalls == 1

Stubborn == PyOpaque("Stubborn", TRUE, TRUE)

SpanValues ==
    {None, PyInt(1), PyName("x"),
     PyTuple(<<PyInt(1), PyInt(2)>>),
     PyList(<<Stubborn>>),
     PyDict([n |-> PyInt(1)]),
     PyDict([n |-> PySet]),
     PyDict([n |-> Stubborn]),
     PySet,
     PyOpaque("Shy", TRUE, FALSE),
     Stubborn}

SpanEvents == {PyDict([first |-> a, second |-> b]) : a, b \in SpanValues}

InitSpan ==
    /\ Init
    /\ logger = ALogger(FALSE, TRUE, TRUE)

SpanRecord ==
    /\ Len(calls) < MaxSpanCalls
    /\ \E surface \in {OPERATIONAL, CONTEXTUAL}, event \in SpanEvents :
          Record(surface, AGENT, event, None, IoOk)

NextSpan == SpanRecord

SpecSpan == InitSpan /\ [][NextSpan]_vars

(***************************************************************************)
(* SpecClear: records on the three surfaces, clears in which os.remove     *)
(* raises on some of the sink files or on none, reads and statistics.      *)
(***************************************************************************)
MaxClearCalls == 3

ClearRecord ==
    /\ Len(calls) < MaxClearCalls
    /\ \E surface \in {OPERATIONAL, COGNITIVE, CONTEXTUAL} :
          Record(surface, AGENT, EvPlain, None, IoOk)

ClearSinks ==
    /\ Len(calls) < MaxClearCalls
    /\ \E stuck \in SUBSET Paths : ClearLogs(stuck)

NextClear == ClearRecord \/ ClearSinks \/ CallGetLogs \/ GetStats

SpecClear == Init /\ [][NextClear]_vars

(***************************************************************************)
(* SpecNested: one thread calling wrapped methods whose bodies call        *)
(* wrapped methods.  The thread's position is the stack of the wrapped     *)
(* calls in progress; a call is entered (the wrapper records its start and *)
(* calls the original method) and later ended (the original method returns *)
(* or raises, whatever the calls made inside it gave, and the wrapper      *)
(* finishes).  The history notes where each call was entered and ended.    *)
(***************************************************************************)
MaxDepth == 2
MaxNestedCalls == 3

MainThread == 1

NestedMethods == {PyName("run_workflow"), PyName("process_data")}

NestedOutcomes ==
    {Return(None),
     Return(PyStr(<<"r">> \o TRACE_START \o <<"r">> \o TRACE_END)),
     Return(PyObject("DataFrame")),
     Raise(Exc("ValueError", "boom")),
     Raise(Exc("KeyboardInterrupt", ""))}

Stack == threads[MainThread].stack

Entered == Cardinality({i \in DOMAIN calls : calls[i].op = "enter"})

NestedEnter ==
    \E method_name \in NestedMethods :
        LET noted == [World EXCEPT
                        !.calls = Append(@, [op |-> "enter",
                                             method |-> method_name])]
            w == wrapper_before(noted, AGENT, method_name, OneArg, IoOk)
        IN  /\ Len(Stack) < MaxDepth
            /\ Entered < MaxNestedCalls
            /\ SetWorld([w EXCEPT
                            !.threads[MainThread].stack =
                                Append(@, method_name)])
            /\ ret' = [op |-> "enter", method |-> method_name]

NestedEnd ==
    \E original \in NestedOutcomes :
        LET method_name == Stack[Len(Stack)]
            r == wrapper_after(World, AGENT, method_name, OneArg, original,
                               IoOk)
        IN  /\ Stack # <<>>
            /\ SetWorld([r.w EXCEPT
                            !.calls = Append(@, [op |-> "exit",
                                                 method |-> method_name,
                                                 original |-> original,
                                                 outcome |-> r.outcome]),
                            !.threads[MainThread].stack =
                                SubSeq(@, 1, Len(@) - 1)])
            /\ ret' = [op |-> "exit", method |-> method_name,
                       original |-> original, val |-> r.outcome]

InitNested ==
    /\ logger = ALogger(FALSE, FALSE, FALSE)
    /\ fs = [f \in Files |-> NoFile]
    /\ spans = <<>>
    /\ uuid_count = 0
    /\ clock = 0
    /\ calls = <<>>
    /\ target = NoAttributes
    /\ threads = [t \in {MainThread} |-> [pc |-> "call", stack |-> <<>>]]
    /\ ret = Returned("__init__", None)

NextNested == NestedEnter \/ NestedEnd

SpecNested == InitNested /\ [][NextNested]_vars

(***************************************************************************)
(* What the history says was recorded.                                     *)
(***************************************************************************)
LastClear ==
    LET S == {i \in DOMAIN calls : calls[i].op = "clear_logs"}
    IN  IF S = {} THEN 0 ELSE CHOOSE i \in S : \A j \in S : j <= i

IsRecordCall(c) == c.op = "record"

\* the record calls since the sinks were last cleared, in call order
RecordedSinceClear ==
    SelectSeq(SubSeq(calls, LastClear + 1, Len(calls)), IsRecordCall)

SurfaceOf(c) == c.log_entry.d.surface

\* no sink failed to open during a record call
NoFault ==
    \A i \in DOMAIN calls : IsRecordCall(calls[i]) => calls[i].env.io = "ok"

NoClear == LastClear = 0

\* the sink a surface's envelopes are kept in, as the documentation has it
LandsIn(s, c) ==
    \/ s = OPERATIONAL /\ SurfaceOf(c) \notin {COGNITIVE, CONTEXTUAL}
    \/ s = COGNITIVE /\ SurfaceOf(c) = COGNITIVE
    \/ /\ s = CONTEXTUAL
       /\ SurfaceOf(c) = CONTEXTUAL
       /\ logger.save_contextual_to_file

\* the append of the envelope succeeded
Appended(c) == c.env.io = "ok" /\ JsonSerializable(c.log_entry)

\* an envelope as JSON gives it back: a tuple comes back as a list
RECURSIVE AsRead(_)
AsRead(v) ==
    CASE v.py \in {"list", "tuple"} ->
            PyList([i \in DOMAIN v.items |-> AsRead(v.items[i])])
      [] v.py = "dict" -> PyDict([k \in DOMAIN v.d |-> AsRead(v.d[k])])
      [] OTHER -> v

KeptIn(s) ==
    SelectSeq(RecordedSinceClear, LAMBDA c : LandsIn(s, c) /\ Appended(c))

ExpectedLogs(s) == [i \in DOMAIN KeptIn(s) |-> AsRead(KeptIn(s)[i].log_entry)]

RecordedOn(s) == SelectSeq(RecordedSinceClear, LAMBDA c : SurfaceOf(c) = s)

TraceIdOf(c) == c.log_entry.d.trace_id

Omits(c) == IsRecordCall(c) /\ c.trace_id = None
Gives(c) == IsRecordCall(c) /\ c.trace_id # None

\* what the Logger retained when the i-th operation of the history returned
RetainedAfter(i) ==
    IF i < Len(calls) THEN calls[i + 1].retained ELSE logger.current_trace_id

\* the trace_id of the j-th call was given to no envelope before it
FreshAt(j) ==
    \A k \in 1..(j - 1) :
        IsRecordCall(calls[k]) =>
            /\ TraceIdOf(calls[k]) # TraceIdOf(calls[j])
            /\ calls[k].trace_id # TraceIdOf(calls[j])

\* j is the first call after i that omits trace_id
NextOmitting(i, j) ==
    /\ i < j
    /\ Omits(calls[j])
    /\ \A k \in (i + 1)..(j - 1) : ~Omits(calls[k])

(***************************************************************************)
(* C7: any two record calls on one Logger that both omit trace_id produce  *)
(* envelopes with the same trace_id, whatever records with an explicit     *)
(* trace_id, reads and clears happen between them.                         *)
(***************************************************************************)
C7_SharedTrace ==
    \A i, j \in DOMAIN calls :
        Omits(calls[i]) /\ Omits(calls[j]) =>
            /\ TraceIdOf(calls[i]) = TraceIdOf(calls[j])
            /\ TraceIdOf(calls[i]) = logger.current_trace_id

\* two calls that omit trace_id, with a call that gives one between them
C7_Witness ==
    /\ Len(calls) = 3
    /\ Omits(calls[1])
    /\ Gives(calls[2])
    /\ Omits(calls[3])
    /\ ret.op = "get_logs"

(***************************************************************************)
(* C8: after a reset of the trace context, the next record call that omits *)
(* trace_id allocates a new trace_id, one given to no envelope before and  *)
(* different from the one retained before the reset, and the Logger        *)
(* retains it.                                                             *)
(***************************************************************************)
C8_FreshAfterReset ==
    \A i, j \in DOMAIN calls :
        calls[i].op = "reset" /\ NextOmitting(i, j)
          /\ (\A k \in (i + 1)..(j - 1) : calls[k].op # "reset") =>
            /\ TraceIdOf(calls[j]) # calls[i].retained
            /\ TraceIdOf(calls[j]).py = "str"
            /\ FreshAt(j)
            /\ RetainedAfter(j) = TraceIdOf(calls[j])

\* a trace_id is retained, the context is reset, a record omits trace_id
C8_Witness ==
    /\ Len(calls) = 3
    /\ Omits(calls[1])
    /\ calls[2].op = "reset"
    /\ calls[2].retained # None
    /\ Omits(calls[3])

(***************************************************************************)
(* C9: a record call that gives a trace_id uses it for its envelope and    *)
(* leaves the retained trace_id as it was: calls that omit trace_id later  *)
(* use the identifier retained before, and when none was retained the next *)
(* call that omits trace_id allocates a fresh one, not the given one.      *)
(***************************************************************************)
C9_ExplicitTraceIsLocal ==
    \A i \in DOMAIN calls :
        Gives(calls[i]) =>
            /\ TraceIdOf(calls[i]) = calls[i].trace_id
            /\ RetainedAfter(i) = calls[i].retained
            /\ \A j \in DOMAIN calls :
                  NextOmitting(i, j) =>
                     IF calls[i].retained # None
                     THEN TraceIdOf(calls[j]) = calls[i].retained
                     ELSE /\ TraceIdOf(calls[j]) # calls[i].trace_id
                          /\ FreshAt(j)

\* the first call gives a trace_id, a later one omits it
C9_Witness ==
    /\ Len(calls) = 3
    /\ Gives(calls[1])
    /\ Omits(calls[2])
    /\ Gives(calls[3])
    /\ TraceIdOf(calls[2]) = logger.current_trace_id

(***************************************************************************)
(* Marker pairs in a text.                                                 *)
(***************************************************************************)
\* the marker pairs of t: a start marker at i, an end marker at j after it
Pairs(t) ==
    {p \in Occurrences(t, TRACE_START) \X Occurrences(t, TRACE_END) :
        p[2] >= p[1] + Len(TRACE_START)}

HasPair(t) == Pairs(t) # {}

\* the pair the extractor honours: no pair starts before it, and no end
\* marker lies between its start marker and its end marker
FirstPairs(t) ==
    {p \in Pairs(t) :
        \A q \in Pairs(t) : q[1] >= p[1] /\ (q[1] = p[1] => q[2] >= p[2])}

\* an end marker lies wholly after the end marker at j
EndMarkerAfter(t, j) ==
    \E j2 \in Occurrences(t, TRACE_END) : j2 >= j + Len(TRACE_END)

(***************************************************************************)
(* C6 as stated: for every text t, if extract(t) = (m, r) then             *)
(* extract(m) = (m, none).                                                 *)
(***************************************************************************)
C6_AsStated ==
    ret.op = "extract_main" /\ isinstance_str(ret.arg) =>
        ret.val = <<ret.first[1], None>>

(***************************************************************************)
(* C6 as amended: if extract(t) = (m, r), then extract(m) = (m, none)      *)
(* exactly when m holds no start marker followed by an end marker, which   *)
(* is so for every text without a marker pair and for every text whose     *)
(* first marker pair is followed by no further end marker; when a further  *)
(* marker pair follows the first one, m still holds it and extract(m)      *)
(* removes it and returns its reasoning.                                   *)
(***************************************************************************)
C6_IdempotentOnMain ==
    ret.op = "extract_main" /\ isinstance_str(ret.arg) =>
        LET t == ret.arg.s
            m == ret.first[1]
        IN  /\ ~HasPair(m.s) <=> ret.val = <<m, None>>
            /\ HasPair(m.s) => ret.val[2] # None /\ ret.val[1] # m
            /\ ~HasPair(t) => ~HasPair(m.s)
            /\ \A p \in FirstPairs(t) :
                  ~EndMarkerAfter(t, p[2]) => ~HasPair(m.s)

\* a text with one marker pair, reasoning and text around it, extracted twice
C6_Witness ==
    /\ ret.op = "extract_main"
    /\ ret.arg = PyStr(<<"a">> \o TRACE_START \o <<"a">> \o TRACE_END)
    /\ ret.first = <<PyStr(<<"a">>), PyStr(<<"a">>)>>
    /\ ret.val = <<PyStr(<<"a">>), None>>

(***************************************************************************)
(* What the history says of the last call of a wrapped method: the records *)
(* made during the call, in order, and the events among them.              *)
(***************************************************************************)
IsCall == ret.op = "call"

CallRecords == SubSeq(calls, ret.first + 1, Len(calls))

IsEvent(c, status) ==
    /\ IsRecordCall(c)
    /\ SurfaceOf(c) = OPERATIONAL
    /\ c.log_entry.d.event.d.status = PyName(status)
    /\ c.log_entry.d.event.d.method = ret.method

EventsOf(status) == {i \in DOMAIN CallRecords : IsEvent(CallRecords[i], status)}

CognitiveOf ==
    {i \in DOMAIN CallRecords :
        IsRecordCall(CallRecords[i]) /\ SurfaceOf(CallRecords[i]) = COGNITIVE}

OriginalRaises == IsCall /\ ret.original.kind = "raise"
OriginalReturns == IsCall /\ ret.original.kind = "return"

\* the classes of the exceptions thrown in SpecWrapper that derive from
\* Exception
DerivesFromException(type) == type \in {"ValueError"}

(***************************************************************************)
(* C2 as stated: for every call of a wrapped method whose original method  *)
(* raises, the wrapper records exactly one start event, exactly one error  *)
(* event and no complete event, and the exception that reaches the caller  *)
(* is the original one.                                                    *)
(***************************************************************************)
C2_AsStated ==
    OriginalRaises =>
        /\ Cardinality(EventsOf("start")) = 1
        /\ Cardinality(EventsOf("error")) = 1
        /\ Cardinality(EventsOf("complete")) = 0
        /\ ret.val = Raise(ret.original.exc)

(***************************************************************************)
(* C2 as amended: for every call of a wrapped method whose original method *)
(* raises, the exception that reaches the caller is the original one       *)
(* (same type, same message), exactly one start event and no complete      *)
(* event are recorded; when the exception derives from Exception the       *)
(* records of the call are the start event and then one error event at     *)
(* level ERROR that carries the type name and the message; when it derives *)
(* from BaseException only (KeyboardInterrupt, SystemExit), no error event *)
(* is recorded and the start event is the only record of the call.         *)
(***************************************************************************)
C2_RaisePath ==
    OriginalRaises =>
        LET e == ret.original.exc
        IN  /\ ret.val = Raise(e)
            /\ EventsOf("start") = {1}
            /\ EventsOf("complete") = {}
            /\ IF DerivesFromException(e.type)
               THEN /\ Len(CallRecords) = 2
                    /\ EventsOf("error") = {2}
                    /\ CallRecords[2].log_entry.d.level = ERROR
                    /\ CallRecords[2].log_entry.d.event.d.error
                          = PyName(e.type \o ": " \o e.msg)
                    /\ CallRecords[2].log_entry.d.event.d.metadata.d.error_type
                          = PyName(e.type)
               ELSE /\ Len(CallRecords) = 1
                    /\ EventsOf("error") = {}

\* the original method raised ValueError: a start and an error were recorded
\* and ValueError reached the caller
C2_Witness ==
    /\ OriginalRaises
    /\ ret.original.exc = Exc("ValueError", "boom")
    /\ ret.val = Raise(Exc("ValueError", "boom"))
    /\ EventsOf("start") = {1}
    /\ EventsOf("error") = {2}

(***************************************************************************)
(* C3 as stated: for every call of a wrapped method whose original method  *)
(* returns normally, whatever value it returns, the wrapper returns        *)
(* without raising and records exactly one start event followed by exactly *)
(* one complete event and no error event.                                  *)
(***************************************************************************)
C3_AsStated ==
    OriginalReturns =>
        /\ ret.val.kind = "return"
        /\ EventsOf("start") = {1}
        /\ EventsOf("complete") = {2}
        /\ EventsOf("error") = {}

(***************************************************************************)
(* The first marker pair of a text, as the claims read it: the first start *)
(* marker and the first end marker that begins after it.                   *)
(***************************************************************************)
FirstPair(t) == CHOOSE p \in FirstPairs(t) : TRUE

ReasoningOf(t) ==
    strip(SubSeq(t, FirstPair(t)[1] + Len(TRACE_START), FirstPair(t)[2] - 1))

MainOf(t) ==
    strip(SubSeq(t, 1, FirstPair(t)[1] - 1)
          \o SubSeq(t, FirstPair(t)[2] + Len(TRACE_END), Len(t)))

ReturnsReasoning ==
    /\ OriginalReturns
    /\ isinstance_str(ret.original.value)
    /\ HasPair(ret.original.value.s)
    /\ ReasoningOf(ret.original.value.s) # <<>>

\* the records of the call are start, complete and one cognitive event with
\* the given thought
RecordsThought(thought) ==
    /\ Len(CallRecords) = 3
    /\ EventsOf("start") = {1}
    /\ EventsOf("complete") = {2}
    /\ CognitiveOf = {3}
    /\ CallRecords[3].log_entry.d.event.d.thought = PyStr(thought)
    /\ CallRecords[3].log_entry.d.event.d.goal
          = PyName("Execute " \o ret.method.a)

(***************************************************************************)
(* C4 as stated: when the original method returns a text with a start      *)
(* marker followed later by an end marker and non-empty reasoning R        *)
(* between them (after trimming), the wrapper returns the trimmed main     *)
(* text and records, after the complete event, exactly one cognitive event *)
(* whose thought equals R and whose goal is "Execute {method}".            *)
(***************************************************************************)
C4_AsStated ==
    ReturnsReasoning =>
        LET t == ret.original.value.s
        IN  /\ ret.val = Return(PyStr(MainOf(t)))
            /\ RecordsThought(ReasoningOf(t))

(***************************************************************************)
(* C4 as amended: when the original method returns a text with a marker    *)
(* pair, and the trimmed text R between the first start marker and the     *)
(* first end marker after it is not empty, the wrapper returns the trimmed *)
(* main text (what precedes that start marker plus what follows that end   *)
(* marker) and records, after the complete event, exactly one cognitive    *)
(* event whose goal is "Execute {method}" and whose thought is R when R    *)
(* has at most 2000 characters, and the first 2000 characters of R         *)
(* followed by "..." when R is longer.                                     *)
(***************************************************************************)
C4_ReasoningRecorded ==
    ReturnsReasoning =>
        LET t == ret.original.value.s
            R == ReasoningOf(t)
        IN  /\ ret.val = Return(PyStr(MainOf(t)))
            /\ RecordsThought(IF Len(R) <= ThoughtCap THEN R
                              ELSE SubSeq(R, 1, ThoughtCap) \o <<".", ".", ".">>)

\* a text with a blank and a letter before the pair and a letter after it
C4_Witness ==
    /\ ReturnsReasoning
    /\ ret.original.value
          = PyStr(<<" ", "r">> \o TRACE_START \o <<"r">> \o TRACE_END)
    /\ ret.val = Return(PyStr(<<"r">>))
    /\ RecordsThought(<<"r">>)

(***************************************************************************)
(* C5 as stated: when the original method returns a non-text value, or a   *)
(* text in which no start marker is followed by an end marker, the wrapper *)
(* returns the original value itself, untouched, and records no cognitive  *)
(* event.                                                                  *)
(***************************************************************************)
C5_AsStated ==
    /\ OriginalReturns
    /\ \/ ~isinstance_str(ret.original.value)
       \/ ~HasPair(ret.original.value.s)
    => /\ ret.val = Return(ret.original.value)
       /\ CognitiveOf = {}

(***************************************************************************)
(* What the last instrument_agent call was given: a target with no         *)
(* eligible method has no public callable attribute when no list is given, *)
(* and no attribute that is named by the list and callable otherwise.      *)
(***************************************************************************)
IsInstrument == ret.op = "instrument_agent"

Eligible(tgt, methods) ==
    IF methods = None
    THEN {attr \in DOMAIN tgt :
            tgt[attr].callable /\ attr \notin {"_step"}}
    ELSE {attr \in DOMAIN tgt :
            /\ tgt[attr].callable
            /\ \E i \in DOMAIN methods.items : methods.items[i] = attr}

\* nothing was recorded, written or emitted during the last operation
NothingRecorded ==
    /\ Len(calls) = ret.first
    /\ ret.first = 0 =>
          /\ \A f \in Paths : fs[f] = NoFile
          /\ spans = <<>>

(***************************************************************************)
(* C11: instrument_agent, the Logger created, on a target with no eligible *)
(* method returns the identical target reference, replaces no attribute    *)
(* of it, records no event and raises no error.                            *)
(***************************************************************************)
C11_NoEligibleNoOp ==
    IsInstrument /\ logger # None /\ Eligible(ret.before, ret.methods) = {}
    => /\ ret.val = Return(TargetRef)
       /\ target = ret.before
       /\ NothingRecorded

\* a target with a private method and a data attribute, no list given
C11_Witness ==
    /\ IsInstrument
    /\ logger # None
    /\ ret.methods = None
    /\ DOMAIN ret.before = {"_step", "limit"}
    /\ ret.val = Return(TargetRef)
    /\ target = ret.before

(***************************************************************************)
(* C12: instrument_agent called before init() has created the global       *)
(* Logger raises RuntimeError to its caller, replaces no method of the     *)
(* target and records no event.                                            *)
(***************************************************************************)
C12_FailsBeforeInit ==
    IsInstrument /\ logger = None
    => /\ ret.val.kind = "raise"
       /\ ret.val.exc.type = "RuntimeError"
       /\ target = ret.before
       /\ NothingRecorded

\* a target with a public method, instrumented before init()
C12_Witness ==
    /\ IsInstrument
    /\ logger = None
    /\ "run" \in DOMAIN target
    /\ ret.methods = None
    /\ ret.val.kind = "raise"
    /\ target["run"].layers = <<>>

(***************************************************************************)
(* What the history says of faults: the record calls whose sink could not  *)
(* be opened, and the record calls whose span the backend refused.         *)
(***************************************************************************)
\* the Logger has a sink for the surface of the call
HasSink(c) == SurfaceOf(c) # CONTEXTUAL \/ logger.save_contextual_to_file

WriteFailed(c) == IsRecordCall(c) /\ HasSink(c) /\ c.env.io = "open_fails"

\* the span bridge is attached and has a tracer
Bridged == logger.enable_otel /\ logger.otel # None /\ logger.otel.tracer

SpanFailed(c) == IsRecordCall(c) /\ Bridged /\ c.env.span = "raises"

\* the identifiers of the envelopes the sinks hold
IdsInSinks ==
    UNION {{fs[f].lines[k].d.id : k \in 1..Len(fs[f].lines)} : f \in Paths}

IdsRead == {get_logs(World, None)[k].d.id :
                k \in DOMAIN get_logs(World, None)}

\* the spans of the calls up to the i-th, when every call had its span taken
SpanOfCall(i) ==
    LET taken == {j \in 1..i : calls[j].env.span = "ok"}
    IN  spans[Cardinality(taken)]

\* what a wrapped call gives its caller when nothing fails in the logging
Transparent ==
    IF ret.original.kind = "raise" THEN ret.val = ret.original
    ELSE IF ret.original.value = None THEN ret.val = Return(None)
    ELSE ret.val = Return(PyStr(MainOf(ret.original.value.s)))

(***************************************************************************)
(* C13: when appending an envelope to a sink fails, record returns         *)
(* normally, the envelope is dropped (no sink holds it and get_logs does   *)
(* not return it) and is not written later, the instrumented method gives  *)
(* its caller what it gives without the failure, and the span of the       *)
(* envelope is still emitted when the span bridge is attached.             *)
(***************************************************************************)
C13_WriteFailureDropped ==
    /\ \A i \in DOMAIN calls :
          WriteFailed(calls[i]) =>
             /\ calls[i].raised = None
             /\ json_dumps(calls[i].log_entry).d.id \notin IdsInSinks
             /\ calls[i].log_entry.d.id \notin IdsRead
             /\ Bridged /\ calls[i].env.span = "ok" =>
                   /\ Cardinality({j \in 1..i : calls[j].env.span = "ok"})
                         <= Len(spans)
                   /\ SpanOfCall(i).name = "Agent." \o SurfaceOf(calls[i]).a
    /\ IsCall /\ ret.env.io = "open_fails" => Transparent
    /\ ret.op = "record" => ret.val = None

\* a cognitive record whose sink could not be opened, after one that was
\* written, on a Logger with the span bridge: one envelope read, two spans
C13_Witness ==
    /\ Len(calls) = 2
    /\ Bridged
    /\ ~WriteFailed(calls[1]) /\ SurfaceOf(calls[1]) = COGNITIVE
    /\ calls[1].env = IoOk
    /\ WriteFailed(calls[2]) /\ SurfaceOf(calls[2]) = COGNITIVE
    /\ Len(fs[CognitivePath].lines) = 1
    /\ Len(spans) = 2
    /\ ret.op = "record"

(***************************************************************************)
(* C14: when the span bridge fails while emitting the span of an envelope, *)
(* record returns normally and the envelope written to its sink stays      *)
(* there and is returned by get_logs.                                      *)
(***************************************************************************)
C14_SpanFailureCaught ==
    /\ \A i \in DOMAIN calls :
          SpanFailed(calls[i]) =>
             /\ calls[i].raised = None
             /\ HasSink(calls[i]) =>
                   /\ json_dumps(calls[i].log_entry).d.id \in IdsInSinks
                   /\ calls[i].log_entry.d.id \in IdsRead
    /\ IsCall /\ ret.env.span = "raises" => Transparent
    /\ ret.op = "record" => ret.val = None

\* an operational record whose span the backend refused: the envelope is in
\* the sink and no span was emitted
C14_Witness ==
    /\ Len(calls) = 1
    /\ SpanFailed(calls[1])
    /\ SurfaceOf(calls[1]) = OPERATIONAL
    /\ Len(fs[OperationalPath].lines) = 1
    /\ spans = <<>>
    /\ ret = Returned("record", None)

(***************************************************************************)
(* C15 as stated: when several threads call record concurrently on the     *)
(* same Logger, the appends to a sink are serialized: once the calls have  *)
(* returned, every sink line is one complete envelope, no line mixes the   *)
(* content of two envelopes, and every recorded envelope is read back by   *)
(* get_logs.                                                               *)
(***************************************************************************)
C15_AsStated ==
    (threads # NoThreads /\ \A t \in DOMAIN threads : threads[t].pc = "idle")
    => /\ \A f \in Paths : \A k \in DOMAIN fs[f].lines :
             Decodable(fs[f].lines[k])
       /\ \A i \in DOMAIN calls : calls[i].log_entry.d.id \in IdsRead

(***************************************************************************)
(* C16: sinks are append-only.  Every operation of the Logger leaves each  *)
(* sink as it was or with one envelope appended at its end, and appends to *)
(* at most one sink; the only exception is clear_logs, which empties the   *)
(* sinks.  No operation changes or removes a line already written.         *)
(***************************************************************************)
SinkKept(f) == fs'[f].lines = fs[f].lines

SinkAppended(f) ==
    /\ Len(fs'[f].lines) = Len(fs[f].lines) + 1
    /\ SubSeq(fs'[f].lines, 1, Len(fs[f].lines)) = fs[f].lines

LastInit ==
    IF \E i \in DOMAIN calls : calls[i].op = "init"
    THEN CHOOSE i \in DOMAIN calls :
            /\ calls[i].op = "init"
            /\ \A j \in DOMAIN calls : calls[j].op = "init" => j <= i
    ELSE 0

DefaultInit ==
    /\ LastInit > 0
    /\ DOMAIN calls[LastInit].kw = {}
    /\ DOMAIN calls[LastInit].environ = {}

C17_AsStated ==
    DefaultInit =>
        \A i \in DOMAIN calls :
            (i > LastInit /\ IsRecordCall(calls[i])
               /\ SurfaceOf(calls[i]) = CONTEXTUAL
               /\ JsonSerializable(calls[i].log_entry))
            => /\ \E k \in DOMAIN fs[ContextualPath].lines :
                     fs[ContextualPath].lines[k]
                        = json_dumps(calls[i].log_entry)
               /\ \E k \in DOMAIN get_logs(World, CONTEXTUAL) :
                     get_logs(World, CONTEXTUAL)[k].d.id
                        = calls[i].log_entry.d.id

(***************************************************************************)
(* C18 as stated: the merge utility never modifies its per-surface input   *)
(* files: for every choice of output path, after the merge each input sink *)
(* holds exactly the envelopes it held before, and the output holds all of *)
(* them sorted by non-decreasing timestamp.                                *)
(***************************************************************************)
IsMerge == ret.op = "export_unified"

\* the lines of the output file are in the order of their timestamps
OutputSorted(lines) ==
    \A i, j \in DOMAIN lines :
        i < j => lines[i].d.timestamp.of.iso <= lines[j].d.timestamp.of.iso

\* the output holds every line of the sinks as they were, each once
OutputHoldsAll(lines, before) ==
    /\ \A f \in Paths : \A k \in DOMAIN before[f].lines :
          \E i \in DOMAIN lines : lines[i] = before[f].lines[k]
    /\ Len(lines) = Len(before[OperationalPath].lines)
                      + Len(before[CognitivePath].lines)
                      + Len(before[ContextualPath].lines)

C18_AsStated ==
    IsMerge =>
        /\ \A f \in Paths : fs[f].lines = ret.before[f].lines
        /\ OutputSorted(fs[ret.output_file].lines)
        /\ OutputHoldsAll(fs[ret.output_file].lines, ret.before)

(***************************************************************************)
(* C19 as stated: for every text result in which the extractor finds a     *)
(* marker pair, whatever lies between the markers, the wrapper returns the *)
(* extracted main text with the marker pair removed; the return value is   *)
(* rewritten exactly when extraction matched.                              *)
(***************************************************************************)
C19_AsStated ==
    OriginalReturns /\ isinstance_str(ret.original.value) =>
        LET t == ret.original.value.s
        IN  IF HasPair(t) THEN ret.val = Return(PyStr(MainOf(t)))
            ELSE ret.val = ret.original

(***************************************************************************)
(* The parts of a text with a marker pair: its first start marker, the     *)
(* first end marker that begins after that start marker has ended, and     *)
(* what lies before, between and after them.                               *)
(***************************************************************************)
FirstStart(t) == Min(Occurrences(t, TRACE_START))

FirstEndAfter(t) ==
    Min({j \in Occurrences(t, TRACE_END) :
            j >= FirstStart(t) + Len(TRACE_START)})

Before(t) == SubSeq(t, 1, FirstStart(t) - 1)
Between(t) ==
    SubSeq(t, FirstStart(t) + Len(TRACE_START), FirstEndAfter(t) - 1)
After(t) == SubSeq(t, FirstEndAfter(t) + Len(TRACE_END), Len(t))

\* r is s without the blanks, tabs and line ends at its two ends
IsTrimOf(r, s) ==
    \E i \in 1..(Len(s) + 1) : \E j \in 0..Len(s) :
        /\ r = SubSeq(s, i, j)
        /\ \A k \in 1..(i - 1) : s[k] \in {" ", "\n", "\t"}
        /\ \A k \in (j + 1)..Len(s) : s[k] \in {" ", "\n", "\t"}
        /\ r # <<>> =>
              r[1] \notin {" ", "\n", "\t"}
                 /\ r[Len(r)] \notin {" ", "\n", "\t"}

\* the marker pairs that begin after the first pair has ended
LaterPairs(t) ==
    {q \in Pairs(t) : q[1] >= FirstEndAfter(t) + Len(TRACE_END)}

(***************************************************************************)
(* C20: the extractor honours only the first marker pair.  For a text with *)
(* a match the reasoning is the trimmed text between the first start       *)
(* marker and the first end marker after it, the main text is the trimmed  *)
(* concatenation of what precedes that start marker and what follows that  *)
(* end marker, and every later marker pair is in the main text verbatim;   *)
(* with no match the result is (trimmed text, none); a non-text input is   *)
(* returned unchanged with no reasoning.                                   *)
(***************************************************************************)
C20_FirstPairOnly ==
    ret.op = "extract" =>
        IF ~isinstance_str(ret.arg) THEN ret.val = <<ret.arg, None>>
        ELSE LET t == ret.arg.s
                 main == ret.val[1]
                 reasoning == ret.val[2]
             IN  IF ~HasPair(t)
                 THEN /\ reasoning = None
                      /\ isinstance_str(main) /\ IsTrimOf(main.s, t)
                 ELSE /\ reasoning # None /\ isinstance_str(reasoning)
                      /\ IsTrimOf(reasoning.s, Between(t))
                      /\ isinstance_str(main)
                      /\ IsTrimOf(main.s, Before(t) \o After(t))
                      /\ \A q \in LaterPairs(t) :
                            \E i \in 1..Len(main.s) :
                               IsAt(main.s, i,
                                    SubSeq(t, q[1],
                                           q[2] + Len(TRACE_END) - 1))

\* a text with two marker pairs: the first is cut out, the second is kept
C20_Witness ==
    /\ ret.op = "extract"
    /\ ret.arg = PyStr(TRACE_START \o TRACE_END \o TRACE_START \o TRACE_END)
    /\ LaterPairs(ret.arg.s) # {}
    /\ ret.val = <<PyStr(TRACE_START \o TRACE_END), PyStr(<<>>)>>

\* the names of an explicit method list
Listed(methods) == {methods.items[i] : i \in DOMAIN methods.items}

\* the attribute has one wrapper more, or more, around what it was
Replaced(attr) ==
    /\ Len(target[attr].layers) > Len(ret.before[attr].layers)
    /\ target[attr].callable
    /\ \A i \in DOMAIN target[attr].layers : target[attr].layers[i] = AGENT
            \/ i > Len(target[attr].layers) - Len(ret.before[attr].layers)
    /\ SubSeq(target[attr].layers,
              Len(target[attr].layers) - Len(ret.before[attr].layers) + 1,
              Len(target[attr].layers)) = ret.before[attr].layers

(***************************************************************************)
(* C21: instrument_agent, the Logger created, with an explicit method list *)
(* L replaces an attribute of the target by a logging wrapper if and only  *)
(* if its name is in L and it is present and callable on the target; the   *)
(* names of L that are missing or not callable are skipped without error,  *)
(* every attribute not in L is left as it was, and the target reference    *)
(* is returned.                                                            *)
(***************************************************************************)
C21_ExplicitList ==
    IsInstrument /\ logger # None /\ ret.methods # None
    => /\ ret.val = Return(TargetRef)
       /\ DOMAIN target = DOMAIN ret.before
       /\ \A attr \in DOMAIN target :
             /\ Replaced(attr) <=>
                   attr \in Listed(ret.methods) /\ ret.before[attr].callable
             /\ ~Replaced(attr) => target[attr] = ret.before[attr]
       /\ NothingRecorded

\* a list naming a data attribute and a method, on a target that has a
\* private method too: the method alone is wrapped
C21_Witness ==
    /\ IsInstrument
    /\ logger # None
    /\ ret.methods = PyList(<<"limit", "run">>)
    /\ DOMAIN ret.before = {"run", "_step", "limit"}
    /\ ret.val = Return(TargetRef)
    /\ target["run"].layers = <<AGENT>> \o ret.before["run"].layers
    /\ target["limit"] = ret.before["limit"]
    /\ target["_step"] = ret.before["_step"]

\* the record calls of the history up to the i-th whose span was taken
SpansTaken(i) == {j \in 1..i : calls[j].env.span = "ok"}

\* the span is the one of the envelope, and stands alone
IsSpanOf(span, c) ==
    /\ span.name = c.log_entry.d.agent.a \o "." \o c.log_entry.d.surface.a
    /\ span.attributes["agent"] = c.log_entry.d.agent
    /\ span.attributes["surface"] = c.log_entry.d.surface
    /\ span.parent = None

LastEvent == calls[Len(calls)].log_entry.d.event
LastSpan == spans[Len(spans)]

\* the first attempt at setting the attribute fails: json.dumps has no
\* form for the map, or str() of the value raises
SettingFails(v) ==
    \/ v.py = "dict" /\ ~JsonSerializable(v)
    \/ v.py \notin {"str", "int", "float", "bool", "dict"} /\ str_raises(v)

Marker(v) == PyName("<error serializing value: " \o v.py \o ">")

\* what the span holds for a value whose setting does not fail
AsSet(v) ==
    CASE v.py \in {"str", "int", "float", "bool"} -> v
      [] v.py = "dict" -> [py |-> "str", json |-> json_dumps(v)]
      [] OTHER -> [py |-> "str", str_of |-> v]

\* the span of the last record call is emitted and holds every non-null
\* attribute of the payload
SpanWhole ==
    /\ Len(spans) = Len(calls)
    /\ DOMAIN LastSpan.attributes =
          {"surface", "agent"}
             \cup {k \in DOMAIN LastEvent.d : LastEvent.d[k] # None}

(***************************************************************************)
(* C23 as stated: when setting one payload attribute on a span fails, that *)
(* attribute alone is replaced by the error marker holding the type name   *)
(* of the value, the other non-null attributes are still set and the span  *)
(* is still emitted.                                                       *)
(***************************************************************************)
C23_AsStated ==
    calls # <<>> =>
        /\ SpanWhole
        /\ \A k \in DOMAIN LastEvent.d :
              LET v == LastEvent.d[k]
              IN  v # None =>
                     LastSpan.attributes[k] =
                        IF SettingFails(v) THEN Marker(v) ELSE AsSet(v)

(***************************************************************************)
(* C23: when setting one payload attribute on a span fails, that attribute *)
(* alone is replaced, by repr(value), and by the error marker holding the  *)
(* type name of the value only when repr(value) raises too; the other      *)
(* non-null attributes are still set and the span is still emitted.        *)
(***************************************************************************)
C23_ReprThenMarker ==
    calls # <<>> =>
        /\ SpanWhole
        /\ \A k \in DOMAIN LastEvent.d :
              LET v == LastEvent.d[k]
              IN  v # None =>
                     LastSpan.attributes[k] =
                        IF ~SettingFails(v) THEN AsSet(v)
                        ELSE IF ~repr_raises(v)
                             THEN [py |-> "str", repr_of |-> v]
                             ELSE Marker(v)

\* a payload with an object whose __str__ and __repr__ raise and a map JSON
\* has no form for: the marker for the one, repr for the other
C23_Witness ==
    /\ Len(calls) = 1
    /\ LastEvent = PyDict([first |-> Stubborn, second |-> PyDict([n |-> PySet])])
    /\ Len(spans) = 1
    /\ LastSpan.attributes["first"] =
          PyName("<error serializing value: Stubborn>")
    /\ LastSpan.attributes["second"] =
          [py |-> "str", repr_of |-> PyDict([n |-> PySet])]

\* the identifiers of the envelopes recorded since the last clear_logs
IdsSinceClear ==
    {calls[i].log_entry.d.id :
        i \in {j \in (LastClear + 1)..Len(calls) : IsRecordCall(calls[j])}}

\* those of them recorded on a surface that has a sink
WrittenSinceClear ==
    {calls[i].log_entry.d.id :
        i \in {j \in (LastClear + 1)..Len(calls) :
                 IsRecordCall(calls[j]) /\ HasSink(calls[j])}}

\* get_stats() reports zero for every count it holds
StatsAllZero ==
    \A k \in DOMAIN get_stats(World) : get_stats(World)[k] = 0

\* os.remove raised on a sink file during the last clear_logs
RemovalFailed == calls[LastClear].failed # {}

(***************************************************************************)
(* C24 as stated: after clear_logs(), get_logs() returns no envelope for   *)
(* any surface of the Logger and get_stats() reports zero for every count, *)
(* whatever was recorded before; the envelopes recorded afterwards are the *)
(* only ones read back.                                                    *)
(***************************************************************************)
C24_AsStated ==
    LastClear > 0 =>
        /\ IdsRead \subseteq IdsSinceClear
        /\ Len(get_logs(World, None)) = get_stats(World).total_events
        /\ IdsSinceClear = {} =>
              get_logs(World, None) = <<>> /\ StatsAllZero

(***************************************************************************)
(* C24: after a clear_logs() in which every sink file of the Logger could  *)
(* be removed, get_logs() returns no envelope for any surface of the       *)
(* Logger and get_stats() reports zero for every count, whatever was       *)
(* recorded before, and the envelopes recorded afterwards are the only     *)
(* ones read back.  A sink whose file could not be removed keeps its       *)
(* envelopes, and clear_logs() returns normally all the same.              *)
(***************************************************************************)
C24_ClearedWhenRemoved ==
    /\ LastClear > 0 /\ ~RemovalFailed =>
          /\ IdsRead = WrittenSinceClear
          /\ Len(get_logs(World, None)) = get_stats(World).total_events
          /\ IdsSinceClear = {} =>
                get_logs(World, None) = <<>> /\ StatsAllZero
    /\ LastClear > 0 /\ LastClear = Len(calls) /\ RemovalFailed
          => get_logs(World, None) # <<>>
    /\ ret.op = "clear_logs" => ret.val = None

\* a record, a clear that removes every sink and a record: the second
\* envelope alone is read back
C24_Witness ==
    /\ Len(calls) = 3
    /\ IsRecordCall(calls[1]) /\ SurfaceOf(calls[1]) = CONTEXTUAL
    /\ logger.save_contextual_to_file
    /\ calls[2].op = "clear_logs" /\ calls[2].failed = {}
    /\ IsRecordCall(calls[3]) /\ SurfaceOf(calls[3]) = OPERATIONAL
    /\ IdsRead = {calls[3].log_entry.d.id}
    /\ get_stats(World).total_events = 1

\* the Logger does not persist contextual envelopes
NotPersisting == ~logger.save_contextual_to_file

\* no envelope read back is of the contextual surface
NoContextualRead ==
    LET logs == get_logs(World, None)
    IN  /\ \A k \in DOMAIN logs : logs[k].d.surface # CONTEXTUAL
        /\ get_logs(World, CONTEXTUAL) = <<>>

\* get_stats() has no contextual count, and its total is the two others
StatsWithoutContextual ==
    LET stats == get_stats(World)
    IN  /\ DOMAIN stats =
              {"operational_events", "cognitive_events", "total_events"}
        /\ stats.total_events =
              stats.operational_events + stats.cognitive_events

(***************************************************************************)
(* C25: on a Logger that does not persist contextual envelopes, a          *)
(* record_contextual call appends nothing to any sink and leaves every     *)
(* sink as it was; after any operation get_logs() and                      *)
(* get_logs("contextual") return no contextual envelope, and get_stats()   *)
(* reports no contextual count and a total equal to operational plus       *)
(* cognitive.                                                              *)
(***************************************************************************)
C25_ContextualNotPersisted ==
    /\ [][ NotPersisting /\ ret'.op = "record_contextual" => fs' = fs ]_vars
    /\ [](NotPersisting => NoContextualRead /\ StatsWithoutContextual)

\* a contextual record after an operational one, on a Logger that does not
\* persist contextual envelopes: one envelope in the sinks, two calls
C25_Witness ==
    /\ NotPersisting
    /\ ret.op = "record_contextual"
    /\ Len(calls) = 2
    /\ SurfaceOf(calls[1]) = OPERATIONAL
    /\ SurfaceOf(calls[2]) = CONTEXTUAL
    /\ Len(get_logs(World, None)) = 1
    /\ fs[ContextualPath] = NoFile
    /\ get_stats(World).total_events = 1

\* the instant an envelope written to a sink was stamped with
StampOf(line) == json_loads(line).d.timestamp.iso

(***************************************************************************)
(* C26 as stated: in every sink, at all times, the timestamps of the       *)
(* envelopes are non-decreasing in append order, for record calls made     *)
(* from one thread and for record calls made concurrently from several     *)
(* threads.                                                                *)
(***************************************************************************)
C26_AsStated ==
    \A f \in Paths :
        \A i, j \in DOMAIN fs[f].lines :
            (i < j /\ Decodable(fs[f].lines[i]) /\ Decodable(fs[f].lines[j]))
               => StampOf(fs[f].lines[i]) <= StampOf(fs[f].lines[j])

(***************************************************************************)
(* C27 as stated: when several threads call record without trace_id on a   *)
(* freshly constructed Logger, at most one trace identifier is ever        *)
(* generated: all the envelopes carry the same trace_id, which is the one  *)
(* the Logger retains.                                                     *)
(***************************************************************************)
C27_AsStated ==
    threads # NoThreads =>
        \A i \in DOMAIN calls :
            /\ calls[i].log_entry.d.trace_id = calls[1].log_entry.d.trace_id
            /\ calls[i].log_entry.d.trace_id = logger.current_trace_id

(***************************************************************************)
(* Bracketing.  The history is read from its i-th entry on, open holding   *)
(* the calls in progress, the innermost last, each "entered", "started"    *)
(* (its start event recorded) or "ended" (its terminal event recorded).    *)
(* A start event must be the first event of the innermost call, a terminal *)
(* event must follow the start event of the innermost call, every call     *)
(* made inside it having ended, and a cognitive event must follow the      *)
(* terminal event of the innermost call.  A call that ends must have its   *)
(* terminal event; read leniently, a call ended by an exception that is    *)
(* not an Exception must have none.                                        *)
(***************************************************************************)
\* the call ended by an exception that is not an Exception
EndedByBaseException(c) ==
    /\ c.outcome.kind = "raise"
    /\ c.outcome.exc.type \in {"KeyboardInterrupt", "SystemExit",
                               "GeneratorExit"}

RECURSIVE Scan(_, _, _)
Scan(i, open, lenient) ==
    IF i > Len(calls) THEN TRUE
    ELSE
    LET c == calls[i]
        n == Len(open)
    IN  CASE c.op = "enter" ->
               Scan(i + 1,
                    Append(open, [method |-> c.method, at |-> "entered"]),
                    lenient)
          [] c.op = "exit" ->
               /\ n > 0
               /\ open[n].method = c.method
               /\ IF lenient /\ EndedByBaseException(c)
                  THEN open[n].at = "started"
                  ELSE open[n].at = "ended"
               /\ Scan(i + 1, SubSeq(open, 1, n - 1), lenient)
          [] c.op = "record" /\ SurfaceOf(c) = OPERATIONAL ->
               /\ n > 0
               /\ c.log_entry.d.event.d.method = open[n].method
               /\ IF c.log_entry.d.event.d.status = PyName("start")
                  THEN /\ open[n].at = "entered"
                       /\ Scan(i + 1, [open EXCEPT ![n].at = "started"],
                               lenient)
                  ELSE /\ c.log_entry.d.event.d.status
                             \in {PyName("complete"), PyName("error")}
                       /\ open[n].at = "started"
                       /\ Scan(i + 1, [open EXCEPT ![n].at = "ended"],
                               lenient)
          [] OTHER ->
               /\ n > 0
               /\ open[n].at = "ended"
               /\ Scan(i + 1, open, lenient)

\* the operational sink holds the operational events in the order recorded
SinkInRecordOrder ==
    LET recorded ==
            SelectSeq(calls,
                      LAMBDA c : c.op = "record"
                                    /\ SurfaceOf(c) = OPERATIONAL)
        lines == fs[OperationalPath].lines
    IN  /\ Len(lines) = Len(recorded)
        /\ \A k \in DOMAIN lines :
              json_loads(lines[k]) = recorded[k].log_entry

RecordsUnknownSurface ==
    /\ ret'.op = "record"
    /\ Len(calls') = Len(calls) + 1
    /\ SurfaceOf(calls'[Len(calls')])
          \notin {OPERATIONAL, COGNITIVE, CONTEXTUAL}

\* the step appends the envelope of its record call to the operational
\* sink, the surface as given, and the envelope is read and counted
LandsInOperational ==
    LET c == calls'[Len(calls')]
        read == get_logs(World, OPERATIONAL)'
    IN  /\ JsonSerializable(c.log_entry)
        /\ fs'[OperationalPath].lines =
              Append(fs[OperationalPath].lines, json_dumps(c.log_entry))
        /\ read # <<>>
        /\ read[Len(read)].d.id = c.log_entry.d.id
        /\ read[Len(read)].d.surface = SurfaceOf(c)
        /\ get_stats(World)'.operational_events =
              get_stats(World).operational_events + 1
        /\ get_stats(World)'.cognitive_events =
              get_stats(World).cognitive_events

OtherSinksKept ==
    /\ fs'[CognitivePath] = fs[CognitivePath]
    /\ fs'[ContextualPath] = fs[ContextualPath]

(***************************************************************************)
(* C29 as stated: a record call whose surface is none of operational,      *)
(* cognitive, contextual appends the envelope to the operational sink with *)
(* its surface field left as given, so that get_logs("operational")        *)
(* returns it and get_stats() counts it as operational; the cognitive and  *)
(* contextual sinks are unchanged.                                         *)
(***************************************************************************)
C29_AsStated ==
    [][ RecordsUnknownSurface => LandsInOperational /\ OtherSinksKept ]_vars

(***************************************************************************)
(* C29: a record call whose surface is none of operational, cognitive,     *)
(* contextual, whose payload json.dumps accepts and for which the          *)
(* operational sink can be opened, appends the envelope to the operational *)
(* sink with its surface field left as given, so that                      *)
(* get_logs("operational") returns it and get_stats() counts it as         *)
(* operational; otherwise it appends nothing.  The cognitive and           *)
(* contextual sinks are unchanged either way.                              *)
(***************************************************************************)
C29_UnknownSurfaceToOperational ==
    [][ RecordsUnknownSurface =>
           /\ OtherSinksKept
           /\ IF calls'[Len(calls')].env.io = "ok"
                 /\ JsonSerializable(calls'[Len(calls')].log_entry)
              THEN LandsInOperational
              ELSE fs'[OperationalPath].lines = fs[OperationalPath].lines
      ]_vars

\* an envelope of the surface "audit" after a cognitive one: it is the one
\* envelope of the operational sink
C29_Witness ==
    /\ ret.op = "record"
    /\ Len(calls) = 2
    /\ SurfaceOf(calls[1]) = COGNITIVE
    /\ SurfaceOf(calls[2]) = AUDIT
    /\ Len(get_logs(World, OPERATIONAL)) = 1
    /\ get_logs(World, OPERATIONAL)[1].d.surface = AUDIT
    /\ get_logs(World, OPERATIONAL)[1].d.id = calls[2].log_entry.d.id
    /\ get_stats(World).operational_events = 1
    /\ Len(fs[CognitivePath].lines) = 1

\* the last operation is a call, that returns, of a method wrapped twice
CallOfTwiceWrapped ==
    /\ IsCall
    /\ Len(target[ret.method.a].layers) = 2
    /\ ret.original.kind = "return"
    /\ ret.val.kind = "return"

\* the statuses of the operational events of the call, in record order
StatusesOfCall ==
    LET events == SelectSeq(CallRecords,
                            LAMBDA c : SurfaceOf(c) = OPERATIONAL)
    IN  [k \in DOMAIN events |-> events[k].log_entry.d.event.d.status.a]

\* what a call of the method wrapped once gives its caller
OnceWrapped ==
    logged_wrapper(World, AGENT, ret.method, OneArg, ret.original,
                   IoOk).outcome

\* the value the method wrapped once returns still holds a marker pair
\* with a reasoning
StillReasoning ==
    /\ isinstance_str(OnceWrapped.value)
    /\ HasPair(OnceWrapped.value.s)
    /\ ReasoningOf(OnceWrapped.value.s) # <<>>

(***************************************************************************)
(* C30 as stated: after instrument_agent has been applied twice to the     *)
(* same target for a method m, one call of m that returns normally records *)
(* two start and two complete events in the order start, start, complete,  *)
(* complete, records at most one cognitive event, and returns the same     *)
(* value as a call of the singly instrumented m.                           *)
(***************************************************************************)
C30_AsStated ==
    CallOfTwiceWrapped =>
        /\ StatusesOfCall = <<"start", "start", "complete", "complete">>
        /\ Cardinality(CognitiveOf) <= 1
        /\ ret.val = OnceWrapped

(***************************************************************************)
(* C30: after instrument_agent has been applied twice to the same target   *)
(* for a method m, one call of m that returns normally records two start   *)
(* and two complete events in the order start, start, complete, complete.  *)
(* When the value the singly instrumented m returns holds no marker pair   *)
(* with a reasoning, the call records at most one cognitive event and      *)
(* returns that same value; when it still holds one (the result held       *)
(* several), the outer wrapper extracts again: two cognitive events, and   *)
(* the value returned has that pair removed too.                           *)
(***************************************************************************)
C30_Cumulative ==
    CallOfTwiceWrapped =>
        /\ StatusesOfCall = <<"start", "start", "complete", "complete">>
        /\ IF StillReasoning
           THEN /\ Cardinality(CognitiveOf) = 2
                /\ ret.val = Return(PyStr(MainOf(OnceWrapped.value.s)))
                /\ ret.val # OnceWrapped
           ELSE /\ Cardinality(CognitiveOf) <= 1
                /\ ret.val = OnceWrapped

\* a method wrapped twice that returns a text with one marker pair: four
\* operational events, one cognitive event, the main text returned
C30_Witness ==
    /\ CallOfTwiceWrapped
    /\ ret.original =
          Return(PyStr(<<"r">> \o TRACE_START \o <<"r">> \o TRACE_END))
    /\ StatusesOfCall = <<"start", "start", "complete", "complete">>
    /\ Cardinality(CognitiveOf) = 1
    /\ ret.val = Return(PyStr(<<"r">>))

====
